---------------------------- MODULE Spec2Model ----------------------------
(***************************************************************************)
(* Model of the paper processing pipeline of                               *)
(* cloud_run/paper_discovery/services/paper_processor.py                   *)
(* (PaperProcessor.process_papers and the stages it calls).                *)
(*                                                                         *)
(* Python str values are TLA+ strings; TLC evaluates Len, \o, SubSeq, Head *)
(* and Tail on them character by character.  Python lists are sequences,   *)
(* Python sets are sets, dicts with a fixed key set are records.           *)
(***************************************************************************)
EXTENDS Integers, Sequences, FiniteSets, TLC

(***************************************************************************)
(* Python values                                                           *)
(***************************************************************************)

\* Python's None (also: a key that is absent from a dict read with .get()).
\* A reserved string that no input text contains.
None == "\\None"

\* Python truthiness of an optional str: None and '' are falsy.
Truthy(x) == x /= None /\ x /= ""

\* Python truthiness of a list.
NonEmpty(l) == Len(l) > 0

(***************************************************************************)
(* str primitives                                                          *)
(***************************************************************************)

LowerLetters == "abcdefghijklmnopqrstuvwxyz"
UpperLetters == "ABCDEFGHIJKLMNOPQRSTUVWXYZ"

\* s[i] for 1 <= i <= Len(s) (1-based).
CharAt(s, i) == SubSeq(s, i, i)

\* the set of the characters of s
CharsOf(s) == { CharAt(s, i) : i \in 1..Len(s) }

\* Position of the one-character string c in the string letters, 0 if absent.
IndexIn(c, letters) ==
    IF \E i \in 1..Len(letters) : CharAt(letters, i) = c
    THEN CHOOSE i \in 1..Len(letters) : CharAt(letters, i) = c
    ELSE 0

LowerSet == CharsOf(LowerLetters)
UpperSet == CharsOf(UpperLetters)
DigitSet == CharsOf("0123456789")
\* \s, and the characters str.strip() and str.split() treat as space
SpaceSet == {" ", "\t", "\n", "\r", "\f"}

ToLower == [ c \in UpperSet |-> CharAt(LowerLetters, IndexIn(c, UpperLetters)) ]
ToUpper == [ c \in LowerSet |-> CharAt(UpperLetters, IndexIn(c, LowerLetters)) ]

IsLower(c) == c \in LowerSet
IsUpper(c) == c \in UpperSet
\* [a-zA-Z]
IsAlpha(c) == IsLower(c) \/ IsUpper(c)
IsDigit(c) == c \in DigitSet
\* \w of a Python 3 str pattern, restricted to ASCII input
IsWordChar(c) == IsAlpha(c) \/ IsDigit(c) \/ c = "_"
IsSpace(c) == c \in SpaceSet

LowerChar(c) == IF IsUpper(c) THEN ToLower[c] ELSE c
UpperChar(c) == IF IsLower(c) THEN ToUpper[c] ELSE c

RECURSIVE ConcatRange(_, _, _)
\* ''.join(pieces[lo..hi]) for a sequence of strings, by halving
ConcatRange(pieces, lo, hi) ==
    IF lo > hi THEN ""
    ELSE IF lo = hi THEN pieces[lo]
    ELSE LET mid == (lo + hi) \div 2
         IN  ConcatRange(pieces, lo, mid) \o ConcatRange(pieces, mid + 1, hi)

\* ''.join(pieces)
Concat(pieces) == ConcatRange(pieces, 1, Len(pieces))

\* str.lower()
Lower(s) == Concat([ i \in 1..Len(s) |-> LowerChar(CharAt(s, i)) ])

\* str.upper()
Upper(s) == Concat([ i \in 1..Len(s) |-> UpperChar(CharAt(s, i)) ])

\* str.lstrip(), str.rstrip(), str.strip()
LStrip(s) ==
    LET solid == { i \in 1..Len(s) : ~IsSpace(CharAt(s, i)) }
    IN  IF solid = {} THEN ""
        ELSE SubSeq(s, CHOOSE i \in solid : \A j \in solid : i <= j, Len(s))
RStrip(s) ==
    LET solid == { i \in 1..Len(s) : ~IsSpace(CharAt(s, i)) }
    IN  IF solid = {} THEN ""
        ELSE SubSeq(s, 1, CHOOSE i \in solid : \A j \in solid : j <= i)
Strip(s) == RStrip(LStrip(s))

\* s[:n]
Prefix(s, n) == IF Len(s) <= n THEN s ELSE SubSeq(s, 1, n)

\* s.startswith(p, i-1): p occurs in s at position i
MatchAt(s, i, p) ==
    /\ i >= 1
    /\ i + Len(p) - 1 <= Len(s)
    /\ SubSeq(s, i, i + Len(p) - 1) = p

\* p in s
Contains(s, p) == \E i \in 1..(Len(s) - Len(p) + 1) : MatchAt(s, i, p)

\* Number of consecutive characters of s from position i on that are in
\* the set class
RunLength(s, i, class) ==
    IF i < 1 \/ i > Len(s) THEN 0
    ELSE LET stop == CHOOSE j \in i..(Len(s) + 1) :
                         /\ j = Len(s) + 1 \/ CharAt(s, j) \notin class
                         /\ \A k \in i..(j - 1) : CharAt(s, k) \in class
         IN  stop - i

\* The elements of a finite set of integers, in increasing order
Ascending(S) ==
    [ k \in 1..Cardinality(S) |->
        CHOOSE x \in S : Cardinality({ y \in S : y < x }) = k - 1 ]

\* str.split(): the whitespace-separated words of s, in order
Split(s) ==
    LET starts == { i \in 1..Len(s) :
                      /\ ~IsSpace(CharAt(s, i))
                      /\ i = 1 \/ IsSpace(CharAt(s, i - 1)) }
        order == Ascending(starts)
    IN  [ k \in 1..Len(order) |->
            LET i == order[k]
                solid == { j \in i..Len(s) : \A m \in i..j : ~IsSpace(CharAt(s, m)) }
            IN  SubSeq(s, i, i + Cardinality(solid) - 1) ]

\* set(list)
SetOf(l) == { l[i] : i \in 1..Len(l) }

\* str.split(sep) for a one-character separator
SplitOn(s, sep) ==
    LET cuts == Ascending({ i \in 1..Len(s) : CharAt(s, i) = sep })
        from(k) == IF k = 1 THEN 1 ELSE cuts[k - 1] + 1
        to(k) == IF k = Len(cuts) + 1 THEN Len(s) ELSE cuts[k] - 1
    IN  [ k \in 1..(Len(cuts) + 1) |-> SubSeq(s, from(k), to(k)) ]

RECURSIVE Join(_, _)
\* sep.join(list)
Join(sep, l) ==
    IF Len(l) = 0 THEN ""
    ELSE IF Len(l) = 1 THEN l[1]
    ELSE l[1] \o sep \o Join(sep, Tail(l))

\* filter(None, list) for a list of str: the non-empty ones, in order
FilterNonEmpty(l) == SelectSeq(l, LAMBDA x : x /= "")

\* a < b in Python's str ordering (code point order) over the characters
\* the model uses; CodeOrder lists them in increasing code point order.
CodeOrder == "\t\n\f\r &,-.:;<>ABCDEFGHIJKLMNOPQRSTUVWXYZ_abcdefghijklmnopqrstuvwxyz|"

StrLess(a, b) ==
    LET n == IF Len(a) < Len(b) THEN Len(a) ELSE Len(b)
        differ == { i \in 1..n : CharAt(a, i) /= CharAt(b, i) }
    IN  IF differ = {} THEN Len(a) < Len(b)
        ELSE LET i == CHOOSE x \in differ : \A y \in differ : x <= y
             IN  IndexIn(CharAt(a, i), CodeOrder) < IndexIn(CharAt(b, i), CodeOrder)

RECURSIVE Sorted(_)
\* sorted(list of str): insertion of the head into the sorted tail
Sorted(l) ==
    IF Len(l) <= 1 THEN l
    ELSE LET rest == Sorted(Tail(l))
             x == Head(l)
             k == Cardinality({ i \in 1..Len(rest) : StrLess(rest[i], x) })
         IN  SubSeq(rest, 1, k) \o << x >> \o SubSeq(rest, k + 1, Len(rest))

(***************************************************************************)
(* Records                                                                 *)
(*                                                                         *)
(* A paper dict has the keys of the dict ArxivClient._convert_arxiv_result *)
(* builds.  publication_date is None or a datetime.date, modelled by its   *)
(* day number.                                                             *)
(***************************************************************************)

NoDate == [is_none |-> TRUE, day |-> 0]
Date(d) == [is_none |-> FALSE, day |-> d]
\* a publication date given as a str
StrDate(text) == [is_none |-> FALSE, day |-> 0, text |-> text]
IsStrDate(publication_date) == "text" \in DOMAIN publication_date

Paper(id, title, abstract, authors, date, categories) ==
    [ paper_id            |-> id,
      title               |-> title,
      abstract            |-> abstract,
      authors             |-> authors,
      publication_date    |-> date,
      venue               |-> None,
      arxiv_id            |-> None,
      semantic_scholar_id |-> None,
      categories          |-> categories,
      full_text           |-> None ]

(***************************************************************************)
(* Text Normalizer                                                         *)
(***************************************************************************)

\* re.sub(r'C+', rep, s) for a character class C given as a set of
\* one-character strings: every maximal run of C becomes rep.
SubRuns(s, class, rep) ==
    Concat([ i \in 1..Len(s) |->
               IF CharAt(s, i) \notin class THEN CharAt(s, i)
               ELSE IF i < Len(s) /\ CharAt(s, i + 1) \in class THEN ""
               ELSE rep ])

\* Length of the match of &[a-zA-Z]+; at position i of s, 0 if none.
EntityMatchLen(s, i) ==
    IF i <= Len(s) /\ CharAt(s, i) = "&"
    THEN LET n == RunLength(s, i + 1, LowerSet \cup UpperSet)
         IN  IF n >= 1 /\ i + n + 1 <= Len(s) /\ CharAt(s, i + n + 1) = ";"
             THEN n + 2
             ELSE 0
    ELSE 0

\* Length of the match of <[^>]+> at position i of s, 0 if none: up to the
\* first '>' after the '<', with at least one character between them.
TagMatchLen(s, i) ==
    IF i < Len(s) /\ CharAt(s, i) = "<" /\ CharAt(s, i + 1) /= ">"
          /\ \E j \in (i + 2)..Len(s) : CharAt(s, j) = ">"
    THEN LET j == CHOOSE k \in (i + 2)..Len(s) :
                      /\ CharAt(s, k) = ">"
                      /\ \A m \in (i + 2)..(k - 1) : CharAt(s, m) /= ">"
         IN  j - i + 1
    ELSE 0

\* s without the characters at the positions of the set removed
Without(s, removed) ==
    Concat([ i \in 1..Len(s) |-> IF i \in removed THEN "" ELSE CharAt(s, i) ])

\* re.sub(r'&[a-zA-Z]+;', '', s).  Two matches of the pattern cannot
\* overlap (a match holds one '&', its first character), so the scan from
\* the left removes every match.
RemoveEntities(s) ==
    LET starts == { i \in 1..Len(s) : EntityMatchLen(s, i) > 0 }
    IN  Without(s, UNION { i..(i + EntityMatchLen(s, i) - 1) : i \in starts })

\* re.sub(r'<[^>]+>', '', s).  The scan from the left takes the leftmost
\* match; a match that starts inside it ends at the same '>', so the
\* characters removed are those some match covers.
RemoveTags(s) ==
    LET starts == { i \in 1..Len(s) : TagMatchLen(s, i) > 0 }
    IN  Without(s, UNION { i..(i + TagMatchLen(s, i) - 1) : i \in starts })

\* PaperProcessor._clean_text
_clean_text(text) ==
    IF ~Truthy(text) THEN ""
    ELSE LET t1 == SubRuns(Strip(text), {" ", "\t", "\n", "\r", "\f"}, " ")
             t2 == SubRuns(t1, {"\n"}, " ")
             t3 == SubRuns(t2, {"\t"}, " ")
             t4 == RemoveEntities(t3)
             t5 == RemoveTags(t4)
         IN  Strip(t5)

\* re.sub(r'^(arXiv:|arxiv:)\s*', '', title, flags=re.IGNORECASE)
StripArxivPrefix(title) ==
    IF MatchAt(Lower(title), 1, "arxiv:")
    THEN LStrip(SubSeq(title, 7, Len(title)))
    ELSE title

\* PaperProcessor._clean_author_name
_clean_author_name(author) ==
    IF ~Truthy(author) THEN ""
    ELSE LET a == SubRuns(Strip(author), SpaceSet, " ")
             parts == SplitOn(a, ",")
         IN  IF Contains(a, ",") /\ Len(parts) = 2
             THEN Strip(parts[2]) \o " " \o Strip(parts[1])
             ELSE a

\* the mapping without its table: every code uppercased
CategoryMappingUpperOnly(cat) == Upper(cat)

\* category_mapping.get(cat, cat.upper())
CategoryMapping(cat) ==
    CASE cat = "cs.ai"   -> "cs.AI"
      [] cat = "cs.lg"   -> "cs.LG"
      [] cat = "cs.ir"   -> "cs.IR"
      [] cat = "cs.cv"   -> "cs.CV"
      [] cat = "cs.cl"   -> "cs.CL"
      [] cat = "stat.ml" -> "stat.ML"
      [] OTHER           -> Upper(cat)

RECURSIVE StandardizeFrom(_, _)
\* the loop of _standardize_categories over the rest of the list, with the
\* list built so far
StandardizeFrom(categories, standardized) ==
    IF Len(categories) = 0 THEN standardized
    ELSE LET cat == Head(categories)
             standardized_cat == CategoryMapping(Strip(Lower(cat)))
         IN  IF ~Truthy(cat)
             THEN StandardizeFrom(Tail(categories), standardized)
             ELSE IF standardized_cat \in SetOf(standardized)
             THEN StandardizeFrom(Tail(categories), standardized)
             ELSE StandardizeFrom(Tail(categories),
                                  Append(standardized, standardized_cat))

\* PaperProcessor._standardize_categories
_standardize_categories(categories) == StandardizeFrom(categories, << >>)

\* PaperProcessor._clean_paper_text
_clean_paper_text(paper) ==
    [ paper EXCEPT
        !.title = IF Truthy(@) THEN StripArxivPrefix(_clean_text(@)) ELSE @,
        !.abstract = IF Truthy(@) THEN _clean_text(@) ELSE @,
        !.authors = IF NonEmpty(@)
                    THEN [ i \in 1..Len(@) |-> _clean_author_name(@[i]) ]
                    ELSE @,
        !.categories = IF NonEmpty(@) THEN _standardize_categories(@) ELSE @ ]

(***************************************************************************)
(* Scores                                                                  *)
(*                                                                         *)
(* A score is a Python float.  It is represented by the rational n/d it    *)
(* would be in exact arithmetic, in lowest terms, and ulp: how many        *)
(* doubles the computed value lies above (+) or below (-) the double       *)
(* nearest to n/d.                                                         *)
(***************************************************************************)

RECURSIVE GCD(_, _)
GCD(a, b) == IF b = 0 THEN a ELSE GCD(b, a % b)

\* the float with exact value n/d (d > 0, n >= 0), correctly rounded
R(n, d) == LET g == IF n = 0 THEN d ELSE GCD(n, d)
           IN  [n |-> n \div g, d |-> d \div g, ulp |-> 0]

RAdd(x, y) == R(x.n * y.d + y.n * x.d, x.d * y.d)
RMul(x, y) == R(x.n * y.n, x.d * y.d)

\* x < y, x <= y, x >= y on floats
FLess(x, y) ==
    \/ x.n * y.d < y.n * x.d
    \/ x.n * y.d = y.n * x.d /\ x.ulp < y.ulp
FLessEq(x, y) == ~FLess(y, x)
FGreaterEq(x, y) == ~FLess(x, y)

\* min(score, 1.0)
FMin(x, y) == IF FLess(y, x) THEN y ELSE x

(***************************************************************************)
(* Inputs                                                                  *)
(***************************************************************************)

\* Largest number of records in a batch handed to process_papers
MaxBatch == 2

\* datetime.utcnow().date() during the runs, as a day number
Days == {1000}

\* Values of settings.MIN_QUALITY_SCORE (the MIN_QUALITY_SCORE environment
\* variable; 0.4 is the default)
MinScores == { R(4, 10), R(5, 10) }

AbstractGood ==
    "We propose a method for text classification and show that the result is a strong performance on many tasks overall."

\* Raw records as the upstream client hands them over
RawPool ==
    << \* 1: a well-formed record
       Paper("p1", "Deep Neural Model for Text Data", AbstractGood,
             << "Ann Lee", "Bo Chen" >>, Date(940), << "cs.LG" >>),
       \* 2: the best record possible: every sub-score is 1.0
       Paper("p2", "Clustering Algorithm for Graphs", AbstractGood,
             << "Ann Lee", "Bo Chen" >>, Date(990), << "cs.ai", "stat.ML" >>),
       \* 3: record 1 under another identifier, before normalization
       Paper("p3", " arXiv:  Deep Neural <b>Model</b> for\nText Data ",
             " We propose a method for text classification and show that the result is a strong performance on many tasks overall.&nbsp;",
             << "Chen,  Bo", "Ann Lee" >>, NoDate, << "CS.LG", "cs.lg" >>),
       \* 4: the identifier of record 1 with other content, a generic opener
       Paper("p1", "Towards Better Search", "A short note.",
             << "Cy Dov" >>, Date(500), << "math.ST" >>),
       \* 5: five of the six title words of record 1
       Paper("p4", "Deep Neural Model for Text", "A survey of results.",
             << "Cy Dov" >>, Date(900), << "cs.CL", "math.ST" >>),
       \* 6: four of the five title words of record 5
       Paper("p5", "Deep Neural Model for", "",
             << "Cy Dov", "Ann Lee" >>, Date(700), << "cs.CL" >>),
       \* 7: title and abstract of record 1, other authors
       Paper("p6", "Deep Neural Model for Text Data", AbstractGood,
             << "Cy Dov" >>, Date(940), << "cs.LG" >>),
       \* 8: a two-character title, no abstract text, otherwise strong
       Paper("p7", "ML", "", << "Ann Lee", "Bo Chen" >>, Date(990), << "cs.AI" >>),
       \* 9: a two-character title and nothing else
       Paper("p8", "ML", "", << >>, NoDate, << >>),
       \* 10: record 8 in another letter case and author order
       Paper("p9", "ml", "", << "Bo Chen", "Ann Lee" >>, Date(990), << "cs.AI" >>),
       \* 11: a two-character title with the abstract absent
       Paper("p10", "ML", None, << >>, NoDate, << >>),
       \* 12: a two-character title, one author, one relevant category
       Paper("p11", "ML", "", << "deep" >>, NoDate, << "cs.AI" >>),
       \* 13: the author of record 12 as abstract
       Paper("p12", "ML", "Deep", << >>, NoDate, << "cs.AI" >>),
       \* 14: no identifier
       Paper("", "Deep Neural Model for Text Data", AbstractGood,
             << "Ann Lee" >>, Date(940), << "cs.LG" >>),
       \* 15: no title
       Paper("p13", None, AbstractGood, << "Ann Lee" >>, Date(940), << "cs.LG" >>),
       \* 16: four keyword hits in three buckets, three of the four signals
       Paper("p14", "Retail Recommender with Embedding",
             "We compare a baseline method on a benchmark dataset.",
             << "Ann Lee", "Bo Chen" >>, Date(990), << "cs.IR" >>)
    >>

\* knownIdentifiers: the identifiers already stored
KnownSets == { {}, {"p1", "p10"} }

RECURSIVE SeqsUpTo(_, _)
\* the sequences over S of length at most n
SeqsUpTo(S, n) ==
    IF n = 0 THEN { << >> }
    ELSE LET shorter == SeqsUpTo(S, n - 1)
         IN  shorter \cup { Append(q, x) : q \in shorter, x \in S }

Batches == SeqsUpTo(SetOf(RawPool), MaxBatch)

(***************************************************************************)
(* Validator                                                               *)
(***************************************************************************)

\* PaperData(**cleaned_paper).dict().  The class is imported from
\* models/paper_models.py but its definition is not part of the sources; it
\* is taken from its uses: ArxivClient._convert_arxiv_result passes the ten
\* keys of Paper with None for an absent abstract, date, venue, ids and
\* full text and expects a dict back, and every later stage reads these
\* keys.  paper_id and title are required str; the other values are kept.
PaperData_ok(cleaned) == cleaned.paper_id /= None /\ cleaned.title /= None
PaperData_dict(cleaned) == cleaned

\* Raw records whose title or identifier is blank, markup or prefix only
TitlePool ==
    << Paper("t1", "   ", AbstractGood, << "Ann Lee" >>, Date(990), << "cs.LG" >>),
       Paper("t2", "<b></b>", AbstractGood, << "Ann Lee" >>, Date(990), << "cs.LG" >>),
       Paper("t3", "&nbsp;", "", << >>, NoDate, << >>),
       Paper("t4", "arXiv: ", "", << >>, NoDate, << >>),
       Paper("t5", " Graph <i>Search</i> ", "", << >>, NoDate, << >>),
       Paper("t6", "", "", << >>, NoDate, << >>),
       Paper("t7", None, "", << >>, NoDate, << >>),
       Paper("", "Graph Search", "", << >>, NoDate, << >>),
       Paper(None, "Graph Search", "", << >>, NoDate, << >>),
       Paper("  ", "Graph Search", "", << >>, NoDate, << >>)
    >>

TitleBatches == SeqsUpTo(SetOf(TitlePool), MaxBatch)

\* _clean_paper_text on the records of RawPool and TitlePool, evaluated once
CleanedPool ==
    [ paper \in SetOf(RawPool) \cup SetOf(TitlePool) |-> _clean_paper_text(paper) ]

\* await self._clean_paper_text(paper)
CleanedPaper(paper) == CleanedPool[paper]

\* PaperData(**cleaned_paper).dict() inside the try, with the except that
\* skips the record
KeepValid(cleaned_paper) ==
    IF PaperData_ok(cleaned_paper) THEN << PaperData_dict(cleaned_paper) >>
    ELSE << >>

\* The body of the loop of _validate_and_clean_papers: what the record adds
\* to validated_papers
ValidateOne(paper) ==
    IF ~Truthy(paper.paper_id) \/ ~Truthy(paper.title) THEN << >>
    ELSE KeepValid(CleanedPaper(paper))

RECURSIVE _validate_and_clean_papers(_)
\* PaperProcessor._validate_and_clean_papers
_validate_and_clean_papers(raw_papers) ==
    IF Len(raw_papers) = 0 THEN << >>
    ELSE ValidateOne(Head(raw_papers))
             \o _validate_and_clean_papers(Tail(raw_papers))

\* The records _validate_and_clean_papers can hand to the later stages
ValidatedPool == UNION { SetOf(ValidateOne(paper)) : paper \in SetOf(RawPool) }

(***************************************************************************)
(* Deduplicator                                                            *)
(***************************************************************************)

\* paper.get('abstract', '').lower() raises AttributeError when the value
\* stored under the key is None.
HashRaises(paper) == paper.abstract = None

\* PaperProcessor._create_content_hash.  hashlib.md5 is taken to be
\* collision free: the digest is represented by the string it is computed
\* from.
_create_content_hash(paper) ==
    LET content_parts == << Lower(paper.title),
                            Prefix(Lower(paper.abstract), 500),
                            Join("|", Sorted(paper.authors)) >>
    IN  Join("|", FilterNonEmpty(content_parts))

\* _create_content_hash on the records of ValidatedPool, evaluated once
ContentHashOf ==
    [ paper \in { x \in ValidatedPool : ~HashRaises(x) } |-> _create_content_hash(paper) ]

\* set(title.lower().split())
TitleWords(title) == SetOf(Split(Lower(title)))

\* TitleWords on the titles of ValidatedPool, evaluated once
TitleWordsOf == [ title \in { x.title : x \in ValidatedPool } |-> TitleWords(title) ]

\* JaccardAbove with the threshold 0.9 in place of 0.8
JaccardAboveNineTenths(title_words, existing_words) ==
    /\ title_words \cup existing_words /= {}
    /\ 10 * Cardinality(title_words \cap existing_words)
           > 9 * Cardinality(title_words \cup existing_words)

\* len(intersection) / len(union) > 0.8 for integer operands: the quotient
\* of two small integers rounds to the double of 0.8 only when it equals 4/5.
JaccardAbove(title_words, existing_words) ==
    LET intersection == title_words \cap existing_words
        union == title_words \cup existing_words
    IN  union /= {} /\ 5 * Cardinality(intersection) > 4 * Cardinality(union)

\* the test of the loop of _is_near_duplicate_title on one existing title
SimilarTitle(title, existing_title) ==
    /\ Truthy(existing_title)
    /\ JaccardAbove(TitleWordsOf[title], TitleWordsOf[existing_title])

\* _is_near_duplicate_title exempting the titles of less than 40 characters
NearDuplicateOfLongTitle(title, existing_papers) ==
    IF ~Truthy(title) \/ Len(title) < 40 THEN FALSE
    ELSE \E k \in 1..Len(existing_papers) :
             SimilarTitle(title, existing_papers[k].title)

\* PaperProcessor._is_near_duplicate_title
_is_near_duplicate_title(title, existing_papers) ==
    IF ~Truthy(title) \/ Len(title) < 10 THEN FALSE
    ELSE \E k \in 1..Len(existing_papers) :
             SimilarTitle(title, existing_papers[k].title)

\* HashedStep with the test on seen_hashes left out
HashedStepWithoutHashTest(st, paper, content_hash) ==
    IF _is_near_duplicate_title(paper.title, st.deduplicated) THEN st
    ELSE [ deduplicated |-> Append(st.deduplicated, paper),
           seen_ids     |-> st.seen_ids \cup {paper.paper_id},
           seen_hashes  |-> st.seen_hashes \cup {content_hash},
           raised       |-> FALSE ]

\* The body of the loop of _deduplicate_papers for a paper whose id is new
\* and whose content hash is computed
HashedStep(st, paper, content_hash) ==
    IF content_hash \in st.seen_hashes THEN st
    ELSE IF _is_near_duplicate_title(paper.title, st.deduplicated) THEN st
    ELSE [ deduplicated |-> Append(st.deduplicated, paper),
           seen_ids     |-> st.seen_ids \cup {paper.paper_id},
           seen_hashes  |-> st.seen_hashes \cup {content_hash},
           raised       |-> FALSE ]

\* One iteration of the loop of _deduplicate_papers on paper, from the
\* loop state st = [deduplicated, seen_ids, seen_hashes, raised].
DedupStep(st, paper) ==
    IF st.raised THEN st
    ELSE IF paper.paper_id \in st.seen_ids THEN st
    ELSE IF HashRaises(paper) THEN [st EXCEPT !.raised = TRUE]
    ELSE HashedStep(st, paper, ContentHashOf[paper])

RECURSIVE DedupLoop(_, _)
DedupLoop(st, papers) ==
    IF Len(papers) = 0 THEN st
    ELSE DedupLoop(DedupStep(st, Head(papers)), Tail(papers))

\* PaperProcessor._deduplicate_papers: the final loop state; when raised is
\* FALSE the method returns deduplicated, otherwise the exception leaves it.
_deduplicate_papers(papers, existing_ids) ==
    DedupLoop([ deduplicated |-> << >>,
                seen_ids     |-> existing_ids,
                seen_hashes  |-> {},
                raised       |-> FALSE ],
              papers)

(***************************************************************************)
(* Quality Scorer                                                          *)
(***************************************************************************)

\* self.quality_thresholds
min_title_length == 10
max_title_length == 500
min_abstract_length == 100
max_abstract_length == 10000

\* number of consecutive whitespace characters of s from position i on
SpaceRun(s, i) == RunLength(s, i, SpaceSet)

\* Position after a match of  w\s+  at position i of s, for some w of the
\* set words; 0 if there is none.  (A longer alternative is tried when a
\* shorter one is not followed by whitespace, as the regex engine does.)
AfterWordAndSpace(s, i, words) ==
    LET ok == { w \in words : MatchAt(s, i, w) /\ SpaceRun(s, i + Len(w)) >= 1 }
    IN  IF i = 0 \/ ok = {} THEN 0
        ELSE LET w == CHOOSE x \in ok : TRUE
             IN  i + Len(w) + SpaceRun(s, i + Len(w))

\* re.search(pattern, s) for the three generic_patterns
GenericOpener(s) ==
    \/ LET p == AfterWordAndSpace(s, 1, {"a", "an", "the"})
           q == AfterWordAndSpace(s, p, {"study", "analysis", "review",
                                         "survey", "approach", "method"})
       IN  q > 0 /\ MatchAt(s, q, "of")
    \/ AfterWordAndSpace(s, 1, {"toward", "towards", "on"}) > 0
    \/ AfterWordAndSpace(s, 1, {"improving", "enhancing", "optimizing"}) > 0

technical_terms ==
    { "algorithm", "model", "neural", "deep", "machine learning",
      "optimization", "classification", "regression", "clustering" }

\* _score_title_quality granting the length points to every title
TitleScoreWithoutLengthTest(title) ==
    IF ~Truthy(title) THEN R(0, 1)
    ELSE FMin(RAdd(RAdd(R(4, 10),
                        IF ~GenericOpener(Lower(title)) THEN R(3, 10) ELSE R(0, 1)),
                   IF \E term \in technical_terms : Contains(Lower(title), term)
                   THEN R(3, 10) ELSE R(0, 1)),
              R(1, 1))

\* PaperProcessor._score_title_quality
_score_title_quality(title) ==
    IF ~Truthy(title) THEN R(0, 1)
    ELSE LET lowered == Lower(title)
             s1 == IF min_title_length <= Len(title)
                       /\ Len(title) <= max_title_length
                   THEN R(4, 10) ELSE R(0, 1)
             s2 == IF ~GenericOpener(lowered) THEN RAdd(s1, R(3, 10)) ELSE s1
             s3 == IF \E term \in technical_terms : Contains(lowered, term)
                   THEN RAdd(s2, R(3, 10)) ELSE s2
         IN  FMin(s3, R(1, 1))

\* p matches s at position i, where a '.' of p matches any character but a
\* newline (the regex alternatives are literal apart from '.')
MatchAtDot(s, i, p) ==
    /\ i >= 1
    /\ i + Len(p) - 1 <= Len(s)
    /\ \A k \in 1..Len(p) :
           IF CharAt(p, k) = "." THEN CharAt(s, i + k - 1) /= "\n"
           ELSE CharAt(s, i + k - 1) = CharAt(p, k)

\* \b at the gap before position i of s
BoundaryBefore(s, i) ==
    LET before == i >= 2 /\ i - 1 <= Len(s) /\ IsWordChar(CharAt(s, i - 1))
        after == i >= 1 /\ i <= Len(s) /\ IsWordChar(CharAt(s, i))
    IN  before /= after

\* re.search(r'\b(w1|w2|...)\b', s)
SearchWords(s, words) ==
    \E w \in words : \E i \in 1..(Len(s) - Len(w) + 1) :
        /\ MatchAtDot(s, i, w)
        /\ BoundaryBefore(s, i)
        /\ BoundaryBefore(s, i + Len(w))

key_indicators ==
    << {"method", "approach", "algorithm", "technique"},
       {"result", "finding", "performance", "accuracy"},
       {"conclusion", "demonstrate", "show", "achieve"} >>

\* PaperProcessor._score_abstract_quality.  (indicators_found / 3) * 0.6 is
\* one double below 0.2 and 0.4 for one and two indicators, and the double
\* of 0.6 for three; added to 0.4 the sums are the doubles of 0.6, 0.8, 1.0.
_score_abstract_quality(abstract) ==
    IF ~Truthy(abstract) THEN R(0, 1)
    ELSE LET lowered == Lower(abstract)
             length_ok == min_abstract_length <= Len(abstract)
                          /\ Len(abstract) <= max_abstract_length
             indicators_found ==
                 Cardinality({ k \in 1..Len(key_indicators) :
                                 SearchWords(lowered, key_indicators[k]) })
             exact == RAdd(IF length_ok THEN R(4, 10) ELSE R(0, 1),
                           RMul(R(indicators_found, Len(key_indicators)),
                                R(6, 10)))
             score == IF ~length_ok /\ indicators_found \in {1, 2}
                      THEN [exact EXCEPT !.ulp = -1]
                      ELSE exact
         IN  FMin(score, R(1, 1))

\* PaperProcessor._score_author_credibility
_score_author_credibility(authors) ==
    IF ~NonEmpty(authors) THEN R(3, 10)
    ELSE LET s1 == IF Len(authors) > 1 THEN RAdd(R(5, 10), R(2, 10))
                   ELSE R(5, 10)
             s2 == IF 2 <= Len(authors) /\ Len(authors) <= 8
                   THEN RAdd(s1, R(3, 10)) ELSE s1
         IN  FMin(s2, R(1, 1))

relevant_categories ==
    { "cs.AI", "cs.LG", "cs.IR", "cs.CV", "cs.CL", "stat.ML", "cs.HC", "cs.DB" }

\* PaperProcessor._score_category_relevance
_score_category_relevance(categories) ==
    IF ~NonEmpty(categories) THEN R(0, 1)
    ELSE LET relevant_count ==
                 Cardinality({ i \in 1..Len(categories) :
                                 categories[i] \in relevant_categories })
         IN  IF relevant_count = 0 THEN R(2, 10)
             ELSE FMin(R(relevant_count, Len(categories)), R(1, 1))

\* int(c) for a digit c
DigitValue(c) == IndexIn(c, "0123456789") - 1

RECURSIVE IntOf(_)
\* int(digits) for a str of digits
IntOf(digits) ==
    IF Len(digits) = 0 THEN 0
    ELSE 10 * IntOf(SubSeq(digits, 1, Len(digits) - 1))
             + DigitValue(CharAt(digits, Len(digits)))

\* the text matches %Y of strptime: \d\d\d\d
YearText(t) == Len(t) = 4 /\ \A i \in 1..4 : IsDigit(CharAt(t, i))

\* the text matches %m of strptime: 1[0-2]|0[1-9]|[1-9]
MonthText(t) ==
    \/ Len(t) = 1 /\ IsDigit(t) /\ t /= "0"
    \/ /\ Len(t) = 2
       /\ \/ CharAt(t, 1) = "1" /\ CharAt(t, 2) \in {"0", "1", "2"}
          \/ CharAt(t, 1) = "0" /\ IsDigit(CharAt(t, 2)) /\ CharAt(t, 2) /= "0"

\* the text matches %d of strptime: 3[01]|[12]\d|0[1-9]|[1-9]| [1-9]
DayText(t) ==
    \/ Len(t) = 1 /\ IsDigit(t) /\ t /= "0"
    \/ /\ Len(t) = 2
       /\ \/ CharAt(t, 1) = "3" /\ CharAt(t, 2) \in {"0", "1"}
          \/ CharAt(t, 1) \in {"1", "2"} /\ IsDigit(CharAt(t, 2))
          \/ CharAt(t, 1) \in {"0", " "} /\ IsDigit(CharAt(t, 2)) /\ CharAt(t, 2) /= "0"

IsLeap(year) == year % 4 = 0 /\ (year % 100 /= 0 \/ year % 400 = 0)

DaysInMonth(year, month) ==
    IF month = 2 THEN (IF IsLeap(year) THEN 29 ELSE 28)
    ELSE IF month \in {4, 6, 9, 11} THEN 30 ELSE 31

\* date(year, month, day).toordinal()
ToOrdinal(year, month, day) ==
    365 * (year - 1) + ((year - 1) \div 4) - ((year - 1) \div 100)
        + ((year - 1) \div 400)
        + << 0, 31, 59, 90, 120, 151, 181, 212, 243, 273, 304, 334 >>[month]
        + (IF month > 2 /\ IsLeap(year) THEN 1 ELSE 0)
        + day

\* date(year, month, day) raises ValueError
DateRaises(year, month, day) == year < 1 \/ day > DaysInMonth(year, month)

\* datetime.strptime(text, '%Y-%m-%d').date() from the three parts of the
\* text between its '-': the day number, or raised = TRUE for ValueError
DateOfParts(parts) ==
    IF Len(parts) /= 3 THEN [raised |-> TRUE, day |-> 0]
    ELSE IF ~(YearText(parts[1]) /\ MonthText(parts[2]) /\ DayText(parts[3]))
    THEN [raised |-> TRUE, day |-> 0]
    ELSE IF DateRaises(IntOf(parts[1]), IntOf(parts[2]), IntOf(LStrip(parts[3])))
    THEN [raised |-> TRUE, day |-> 0]
    ELSE [raised |-> FALSE,
          day |-> ToOrdinal(IntOf(parts[1]), IntOf(parts[2]), IntOf(LStrip(parts[3])))]

\* datetime.strptime(text, '%Y-%m-%d').date().  No part of the format
\* matches a '-', so the text matches in one way only: its parts between
\* the '-' match %Y, %m and %d.
Strptime(text) == DateOfParts(SplitOn(text, "-"))

\* the steps of _score_publication_recency with days_old <= 30 read as
\* days_old < 30
ScoreOfDaysOldExclusive(days_old) ==
    IF days_old < 30 THEN R(1, 1)
    ELSE IF days_old <= 90 THEN R(8, 10)
    ELSE IF days_old <= 180 THEN R(6, 10)
    ELSE IF days_old <= 365 THEN R(4, 10)
    ELSE R(2, 10)

\* the steps of _score_publication_recency
ScoreOfDaysOld(days_old) ==
    IF days_old <= 30 THEN R(1, 1)
    ELSE IF days_old <= 90 THEN R(8, 10)
    ELSE IF days_old <= 180 THEN R(6, 10)
    ELSE IF days_old <= 365 THEN R(4, 10)
    ELSE R(2, 10)

\* the try block of _score_publication_recency for the parsed str, with the
\* except that returns 0.5
ScoreOfParsed(parsed, today) ==
    IF parsed.raised THEN R(5, 10) ELSE ScoreOfDaysOld(today - parsed.day)

\* PaperProcessor._score_publication_recency, with today the value of
\* datetime.utcnow().date() as a day number
_score_publication_recency(publication_date, today) ==
    IF publication_date.is_none THEN R(5, 10)
    ELSE IF IsStrDate(publication_date)
    THEN (IF publication_date.text = "" THEN R(5, 10)
          ELSE ScoreOfParsed(Strptime(publication_date.text), today))
    ELSE ScoreOfDaysOld(today - publication_date.day)

\* The double that the weighted sum of _calculate_quality_score
\*   0.25*title + 0.30*abstract + 0.15*authors + 0.20*categories + 0.10*recency
\* (evaluated left to right in IEEE-754 binary64) yields, against the double
\* nearest to the exact sum, for the sub-scores
\*   << title, abstract, abstract.ulp, authors, categories, recency, ulp >>
\* (the five scores in sixtieths) whose exact sum is 0.4, 0.5 or 1.0: the
\* values the sum is compared with (MIN_QUALITY_SCORE at the values of
\* MinScores, and the le=1.0 bound of QualityScore).  Sub-score combinations
\* whose exact sum is one of these values and that are not listed yield the
\* nearest double.  For other sums no comparison made by the program depends
\* on the last place.
WeightedSumRounding ==
    {
      <<  0,  0,  0, 60, 60, 30, -1 >>,
      <<  0, 24, -1, 60, 15, 48, -1 >>,
      <<  0, 24, -1, 60, 24, 30, -1 >>,
      <<  0, 36,  0, 60, 15, 12, -1 >>,
      << 18,  0,  0, 30, 60, 30, -1 >>,
      << 18, 12, -1, 42, 30, 36, -1 >>,
      << 18, 24, -1, 18, 30, 36, -1 >>,
      << 18, 24, -1, 30, 15, 48, -1 >>,
      << 18, 24, -1, 30, 24, 30, -1 >>,
      << 18, 24, -1, 42, 12, 36, -1 >>,
      << 18, 24, -1, 42, 15, 30, -1 >>,
      << 18, 24,  0, 18, 30, 36, -1 >>,
      << 18, 24,  0, 42, 12, 36, -1 >>,
      << 18, 24,  0, 42, 15, 30, -1 >>,
      << 18, 36,  0, 18, 12, 36, -1 >>,
      << 18, 36,  0, 18, 15, 30, -1 >>,
      << 24,  0,  0, 60, 30, 30, -1 >>,
      << 24, 12, -1, 60, 12, 30, -1 >>,
      << 36,  0,  0, 60, 12, 36, -1 >>,
      << 36,  0,  0, 60, 15, 30, -1 >>,
      << 42,  0,  0, 18, 30, 48, -1 >>,
      << 42,  0,  0, 18, 36, 36, -1 >>,
      << 42,  0,  0, 30, 30, 30, -1 >>,
      << 42,  0,  0, 42, 12, 48, -1 >>,
      << 42, 12, -1, 18, 12, 48, -1 >>,
      << 42, 12, -1, 30, 12, 30, -1 >>,
      << 42, 12, -1, 42,  0, 36, -1 >>,
      << 42, 24, -1, 18,  0, 36, -1 >>,
      << 42, 24,  0, 18,  0, 36, -1 >>,
      <<  0, 36,  0, 60, 36, 30, -1 >>,
      <<  0, 60,  0, 60,  0, 30, -1 >>,
      << 36, 24, -1, 60,  0, 48, -1 >>,
      << 36, 24,  0, 60, 12, 24,  1 >>,
      << 42, 12, -1, 42, 30, 36, -1 >>,
      << 42, 24, -1, 18, 30, 36, -1 >>,
      << 42, 24, -1, 42, 12, 36, -1 >>,
      << 42, 24, -1, 42, 15, 30, -1 >>,
      << 42, 24,  0, 18, 30, 36, -1 >>,
      << 42, 24,  0, 42, 12, 36, -1 >>,
      << 42, 24,  0, 42, 15, 30, -1 >>,
      << 42, 36,  0, 18, 12, 36, -1 >>,
      << 42, 36,  0, 18, 15, 30, -1 >>,
      << 60, 60,  0, 60, 60, 60,  1 >>
    }

weight_title == R(25, 100)
weight_abstract == R(30, 100)
weight_authors == R(15, 100)
weight_categories == R(20, 100)
weight_recency == R(10, 100)

\* a score in sixtieths; -1 when it is not a whole number of them
Sixtieths(x) == IF (x.n * 60) % x.d = 0 THEN (x.n * 60) \div x.d ELSE -1

\* the last-place offset of the weighted sum of the sub-scores of key
RoundingOf(key) ==
    LET rows == { row \in WeightedSumRounding : SubSeq(row, 1, 6) = key }
    IN  IF rows = {} THEN 0 ELSE (CHOOSE row \in rows : TRUE)[7]

\* overall_score of _calculate_quality_score
WeightedSum(t, a, u, c, r) ==
    [ RAdd(RAdd(RAdd(RAdd(RMul(weight_title, t),
                          RMul(weight_abstract, a)),
                     RMul(weight_authors, u)),
                RMul(weight_categories, c)),
           RMul(weight_recency, r))
      EXCEPT !.ulp = RoundingOf(<< Sixtieths(t), Sixtieths(a), a.ulp,
                                   Sixtieths(u), Sixtieths(c), Sixtieths(r) >>) ]

\* Field(ge=0.0, le=1.0) of QualityScore: pydantic raises ValidationError
\* for a value outside [0, 1]
FieldInRange(x) == FGreaterEq(x, R(0, 1)) /\ FLessEq(x, R(1, 1))

\* The arguments PaperProcessor._calculate_quality_score passes to
\* QualityScore(...), from the five sub-scores
QualityScoreArgs(title_score, abstract_score, author_score, category_score, recency_score) ==
    [ title_score    |-> title_score,
      abstract_score |-> abstract_score,
      author_score   |-> author_score,
      category_score |-> category_score,
      recency_score  |-> recency_score,
      overall_score  |-> WeightedSum(title_score, abstract_score,
                                     author_score, category_score,
                                     recency_score) ]

\* PaperProcessor._calculate_quality_score: the arguments of QualityScore(...)
_calculate_quality_score(paper, today) ==
    QualityScoreArgs(_score_title_quality(paper.title),
                     _score_abstract_quality(paper.abstract),
                     _score_author_credibility(paper.authors),
                     _score_category_relevance(paper.categories),
                     _score_publication_recency(paper.publication_date, today))

\* _calculate_quality_score on the records of ValidatedPool, evaluated once
QualityScoreOf ==
    [ paper \in ValidatedPool |->
        [ day \in Days |-> _calculate_quality_score(paper, day) ] ]

\* QualityScore(...) raises ValidationError: some field is outside [0, 1]
QualityScoreRaises(score) ==
    \E f \in DOMAIN score : ~FieldInRange(score[f])

\* paper['quality_score'] = quality_score.dict()
WithScore(paper, quality_score) ==
    [ k \in DOMAIN paper \cup {"quality_score"} |->
        IF k = "quality_score" THEN quality_score ELSE paper[k] ]

\* ScoredStep comparing with the default minimum 0.4, not the configured one
ScoredStepDefaultMinimum(st, paper, quality_score, min_quality_score) ==
    IF st.raised THEN [st EXCEPT !.scored = Append(@, paper)]
    ELSE IF QualityScoreRaises(quality_score)
    THEN [st EXCEPT !.raised = TRUE, !.scored = Append(@, paper)]
    ELSE [ scored |-> Append(st.scored, WithScore(paper, quality_score)),
           quality_papers |->
               IF FGreaterEq(quality_score.overall_score, R(4, 10))
               THEN Append(st.quality_papers, WithScore(paper, quality_score))
               ELSE st.quality_papers,
           raised |-> FALSE ]

\* ScoredStep keeping the papers at or below the minimum score
ScoredStepKeepingLow(st, paper, quality_score, min_quality_score) ==
    IF st.raised THEN [st EXCEPT !.scored = Append(@, paper)]
    ELSE IF QualityScoreRaises(quality_score)
    THEN [st EXCEPT !.raised = TRUE, !.scored = Append(@, paper)]
    ELSE [ scored |-> Append(st.scored, WithScore(paper, quality_score)),
           quality_papers |->
               IF FLessEq(quality_score.overall_score, min_quality_score)
               THEN Append(st.quality_papers, WithScore(paper, quality_score))
               ELSE st.quality_papers,
           raised |-> FALSE ]

\* The body of the loop of _assess_and_filter_quality once the score of
\* paper is computed
ScoredStep(st, paper, quality_score, min_quality_score) ==
    IF st.raised THEN [st EXCEPT !.scored = Append(@, paper)]
    ELSE IF QualityScoreRaises(quality_score)
    THEN [st EXCEPT !.raised = TRUE, !.scored = Append(@, paper)]
    ELSE [ scored |-> Append(st.scored, WithScore(paper, quality_score)),
           quality_papers |->
               IF FGreaterEq(quality_score.overall_score, min_quality_score)
               THEN Append(st.quality_papers, WithScore(paper, quality_score))
               ELSE st.quality_papers,
           raised |-> FALSE ]

\* One iteration of the loop of _assess_and_filter_quality on paper, from
\* the loop state st = [scored, quality_papers, raised].  scored collects
\* the dicts of the input list as the loop leaves them: the assignment
\* paper['quality_score'] = ... writes into the dict held by the caller.
QualityStep(st, paper, today, min_quality_score) ==
    ScoredStep(st, paper, QualityScoreOf[paper][today], min_quality_score)

RECURSIVE QualityLoop(_, _, _, _)
QualityLoop(st, papers, today, min_quality_score) ==
    IF Len(papers) = 0 THEN st
    ELSE QualityLoop(QualityStep(st, Head(papers), today, min_quality_score),
                     Tail(papers), today, min_quality_score)

\* PaperProcessor._assess_and_filter_quality: the final loop state; when
\* raised is FALSE the method returns quality_papers.
_assess_and_filter_quality(papers, today, min_quality_score) ==
    QualityLoop([scored |-> << >>, quality_papers |-> << >>, raised |-> FALSE],
                papers, today, min_quality_score)

(***************************************************************************)
(* Enricher                                                                *)
(***************************************************************************)

\* (x or '')
OrEmpty(x) == IF Truthy(x) THEN x ELSE ""

\* f"{x}" of an optional str
Format(x) == IF x = None THEN "None" ELSE x

\* the dict of _calculate_word_count with the abstract left out of the total
WordCountOfTitle(title_words, abstract_words) ==
    [ title_words    |-> title_words,
      abstract_words |-> abstract_words,
      total_words    |-> title_words ]

\* the dict _calculate_word_count returns, from the two counts
WordCount(title_words, abstract_words) ==
    [ title_words    |-> title_words,
      abstract_words |-> abstract_words,
      total_words    |-> title_words + abstract_words ]

\* PaperProcessor._calculate_word_count
_calculate_word_count(paper) ==
    WordCount(Len(Split(OrEmpty(paper.title))),
              Len(Split(OrEmpty(paper.abstract))))

relevance_keywords ==
    [ recommendation |-> {"recommend", "recommendation", "recommender", "suggest"},
      ecommerce |-> {"ecommerce", "e-commerce", "retail", "shopping", "purchase", "buy"},
      personalization |-> {"personaliz", "individual", "custom", "tailor"},
      collaborative_filtering |-> {"collaborative", "filtering", "matrix factorization"},
      content_based |-> {"content-based", "content based", "item-based"},
      deep_learning |-> {"deep learning", "neural network", "transformer", "embedding"},
      machine_learning |-> {"machine learning", "classification", "clustering", "regression"} ]

RECURSIVE SumOver(_, _)
\* sum(f[k] for k in keys)
SumOver(f, keys) ==
    IF keys = {} THEN 0
    ELSE LET k == CHOOSE x \in keys : TRUE
         IN  f[k] + SumOver(f, keys \ {k})

\* the loop of _extract_relevance_indicators: matches per category
IndicatorCounts(text_content) ==
    [ category \in DOMAIN relevance_keywords |->
        Cardinality({ keyword \in relevance_keywords[category] :
                        Contains(text_content, keyword) }) ]

\* indicators with the two keys added after the loop
WithTotals(indicators, total_indicators) ==
    [ k \in DOMAIN indicators \cup {"total_relevance_score", "is_highly_relevant"} |->
        CASE k = "total_relevance_score" -> total_indicators
          [] k = "is_highly_relevant"    -> total_indicators >= 3
          [] OTHER                       -> indicators[k] ]

\* sum(indicators.values()) and the two added keys
Totalled(indicators) == WithTotals(indicators, SumOver(indicators, DOMAIN indicators))

\* PaperProcessor._extract_relevance_indicators
_extract_relevance_indicators(paper) ==
    Totalled(IndicatorCounts(
        Lower(Format(paper.title) \o " " \o Format(paper.abstract))))

\* abstract.lower() in _analyze_content raises AttributeError for None
AnalyzeRaises(paper) == paper.abstract = None \/ paper.title = None

BoolToInt(b) == IF b THEN 1 ELSE 0

\* the dict _analyze_content returns, from the six flags
ContentAnalysis(has_methodology, has_evaluation, has_comparison, mentions_dataset, is_survey, is_tutorial) ==
    [ has_methodology  |-> has_methodology,
      has_evaluation   |-> has_evaluation,
      has_comparison   |-> has_comparison,
      mentions_dataset |-> mentions_dataset,
      is_survey        |-> is_survey,
      is_tutorial      |-> is_tutorial,
      technical_depth_score |->
          R(BoolToInt(has_methodology) + BoolToInt(has_evaluation)
              + BoolToInt(has_comparison) + BoolToInt(mentions_dataset), 4) ]

\* the searches of _analyze_content in the lowered abstract and title
AnalyzeLowered(title, abstract) ==
    ContentAnalysis(
        SearchWords(abstract, {"method", "approach", "algorithm", "technique"}),
        SearchWords(abstract, {"evaluat", "experiment", "result", "performance"}),
        SearchWords(abstract, {"compar", "baseline", "state.of.the.art"}),
        SearchWords(abstract, {"dataset", "data set", "benchmark", "corpus"}),
        SearchWords(title, {"survey", "review", "overview"}),
        SearchWords(title, {"tutorial", "introduction", "primer"}))

\* PaperProcessor._analyze_content
_analyze_content(paper) == AnalyzeLowered(Lower(paper.title), Lower(paper.abstract))

\* the validated record a scored record was made from
Unscored(paper) == [ k \in DOMAIN paper \ {"quality_score"} |-> paper[k] ]

\* The three derived maps on the records of ValidatedPool, evaluated once
DerivedOf ==
    [ paper \in { x \in ValidatedPool : ~AnalyzeRaises(x) } |->
        [ word_count           |-> _calculate_word_count(paper),
          relevance_indicators |-> _extract_relevance_indicators(paper),
          content_analysis     |-> _analyze_content(paper) ] ]

\* enriched_paper.update({...})
Updated(paper, added) ==
    [ k \in DOMAIN paper \cup DOMAIN added |->
        IF k \in DOMAIN added THEN added[k] ELSE paper[k] ]

\* the dict passed to update, from the three derived maps
Added(paper, derived, now) ==
    [ word_count           |-> derived.word_count,
      author_count         |-> Len(paper.authors),
      category_count       |-> Len(paper.categories),
      processing_timestamp |-> now,
      relevance_indicators |-> derived.relevance_indicators,
      content_analysis     |-> derived.content_analysis ]

\* The body of the loop of _enrich_paper_data: the enriched copy of paper,
\* with now the value of datetime.utcnow()
EnrichOne(paper, now) ==
    Updated(paper, Added(paper, DerivedOf[Unscored(paper)], now))

\* PaperProcessor._enrich_paper_data: enriched_papers, and raised = TRUE
\* when _analyze_content raises for one of the papers
_enrich_paper_data(papers, now) ==
    [ raised |-> \E i \in 1..Len(papers) : AnalyzeRaises(papers[i]),
      enriched_papers |->
          IF \E i \in 1..Len(papers) : AnalyzeRaises(papers[i]) THEN << >>
          ELSE [ i \in 1..Len(papers) |-> EnrichOne(papers[i], now) ] ]

(***************************************************************************)
(* Standardizer and Stats Reporter                                         *)
(***************************************************************************)

\* the body of the loop of _standardize_for_storage
StandardizeOne(paper, now) ==
    [ paper_id             |-> paper.paper_id,
      title                |-> paper.title,
      abstract             |-> paper.abstract,
      authors              |-> paper.authors,
      publication_date     |-> paper.publication_date,
      venue                |-> paper.venue,
      arxiv_id             |-> paper.arxiv_id,
      semantic_scholar_id  |-> paper.semantic_scholar_id,
      categories           |-> paper.categories,
      full_text            |-> paper.full_text,
      created_at           |-> now,
      quality_score        |-> paper.quality_score,
      word_count           |-> paper.word_count,
      relevance_indicators |-> paper.relevance_indicators,
      content_analysis     |-> paper.content_analysis,
      processing_timestamp |-> paper.processing_timestamp,
      processor_version    |-> "1.0",
      processing_pipeline  |-> "paper_discovery_v1" ]

\* PaperProcessor._standardize_for_storage
_standardize_for_storage(papers, now) ==
    [ i \in 1..Len(papers) |-> StandardizeOne(papers[i], now) ]

\* Number of occurrences of x in the list l
Count(l, x) == Cardinality({ i \in 1..Len(l) : l[i] = x })

\* Index of the first occurrence of x in l
FirstIndex(l, x) == CHOOSE i \in 1..Len(l) : l[i] = x /\ \A j \in 1..(i - 1) : l[j] /= x

RECURSIVE MostCommonFrom(_, _, _)
\* Counter(l).most_common(n) restricted to the elements of keys: pairs
\* << element, count >> by decreasing count, ties in order of first occurrence
MostCommonFrom(l, keys, n) ==
    IF keys = {} \/ n = 0 THEN << >>
    ELSE LET best == CHOOSE x \in keys : \A y \in keys :
                         \/ Count(l, x) > Count(l, y)
                         \/ Count(l, x) = Count(l, y)
                              /\ FirstIndex(l, x) <= FirstIndex(l, y)
         IN  << << best, Count(l, best) >> >> \o MostCommonFrom(l, keys \ {best}, n - 1)

RECURSIVE Flatten(_)
\* the concatenation of a list of lists
Flatten(ls) == IF Len(ls) = 0 THEN << >> ELSE Head(ls) \o Flatten(Tail(ls))

RECURSIVE SumR(_)
\* sum(list of float), in exact arithmetic
SumR(l) == IF Len(l) = 0 THEN R(0, 1) ELSE RAdd(Head(l), SumR(Tail(l)))

\* max(list) and min(list) of a non-empty list of floats
MaxR(l) == l[CHOOSE i \in 1..Len(l) : \A j \in 1..Len(l) : FLessEq(l[j], l[i])]
MinR(l) == l[CHOOSE i \in 1..Len(l) : \A j \in 1..Len(l) : FLessEq(l[i], l[j])]

\* the dict {}
EmptyDict == [ k \in {} |-> 0 ]

\* get_processing_statistics with the test for an empty list inverted
StatisticsOfNoPapers(papers) ==
    IF NonEmpty(papers) THEN EmptyDict
    ELSE [ total_papers           |-> 0,
           category_distribution  |-> << >>,
           highly_relevant_papers |-> 0 ]

\* PaperProcessor.get_processing_statistics.  The means are given in exact
\* arithmetic.
get_processing_statistics(papers) ==
    IF ~NonEmpty(papers) THEN EmptyDict
    ELSE LET all_categories == Flatten([ i \in 1..Len(papers) |-> papers[i].categories ])
             quality_scores == [ i \in 1..Len(papers) |->
                                   papers[i].quality_score.overall_score ]
             author_counts == [ i \in 1..Len(papers) |-> R(Len(papers[i].authors), 1) ]
             highly_relevant ==
                 Cardinality({ i \in 1..Len(papers) :
                                 papers[i].relevance_indicators.is_highly_relevant })
             Stats(l) == [ mean |-> RMul(SumR(l), R(1, Len(l))),
                           min  |-> MinR(l),
                           max  |-> MaxR(l) ]
         IN  [ total_papers           |-> Len(papers),
               category_distribution  |-> MostCommonFrom(all_categories,
                                                         SetOf(all_categories), 10),
               quality_score_stats    |-> Stats(quality_scores),
               author_count_stats     |-> Stats(author_counts),
               highly_relevant_papers |-> highly_relevant,
               relevance_percentage   |-> RMul(R(highly_relevant, Len(papers)),
                                               R(100, 1)) ]

(***************************************************************************)
(* State                                                                   *)
(***************************************************************************)

VARIABLES
    raw_papers,           \* argument of process_papers
    existing_paper_ids,   \* argument of process_papers: the caller's set
    min_quality_score,    \* settings.MIN_QUALITY_SCORE
    today,                \* datetime.utcnow().date()
    clock,                \* datetime.utcnow(), in ticks
    pc,                   \* where process_papers is
    start_time,           \* locals of process_papers
    validated_papers,
    deduplicated_papers,
    quality_filtered_papers,
    enriched_papers,
    result,               \* the ProcessingResult returned
    statistics,           \* what get_processing_statistics returned
    run,                  \* 1 for the first call of process_papers, 2 for the second
    first_run,            \* outcome of the first call, kept by the caller
    call,                 \* a call of one method of PaperProcessor on its own
    job_status,           \* main.job_status: job id -> status
    background_tasks,     \* the runs of _background_paper_discovery, by job id
    response,             \* the last HTTP response of the service
    bigquery_papers       \* the paper ids of the papers table in BigQuery

vars == << raw_papers, existing_paper_ids, min_quality_score, today, clock, pc,
           start_time, validated_papers, deduplicated_papers,
           quality_filtered_papers, enriched_papers, result, statistics, run,
           first_run, call, job_status, background_tasks, response,
           bigquery_papers >>

inputs == << raw_papers, existing_paper_ids, today >>

\* the variables of the service of main.py
service == << job_status, background_tasks, response, bigquery_papers >>

\* what process_papers does not touch
outside == << call, service >>

\* the service has not been asked anything
NoService ==
    /\ job_status = << >>
    /\ background_tasks = << >>
    /\ response = [endpoint |-> "none"]
    /\ bigquery_papers = {}

\* no method is being called on its own
NoCall == [ fn |-> "none", done |-> TRUE ]

NoResult ==
    [ processed_papers   |-> << >>,
      duplicates_removed |-> 0,
      quality_filtered   |-> 0,
      enriched_count     |-> 0,
      processing_stats   |-> EmptyDict ]

NoRun == [ pc |-> "none", result |-> NoResult, min_quality_score |-> R(0, 1) ]

Init ==
    /\ raw_papers \in Batches
    /\ existing_paper_ids \in KnownSets
    /\ min_quality_score \in MinScores
    /\ today \in Days
    /\ clock = 0
    /\ pc = "start"
    /\ start_time = 0
    /\ validated_papers = << >>
    /\ deduplicated_papers = << >>
    /\ quality_filtered_papers = << >>
    /\ enriched_papers = << >>
    /\ result = NoResult
    /\ statistics = EmptyDict
    /\ run = 1
    /\ first_run = NoRun
    /\ call = NoCall
    /\ NoService

(***************************************************************************)
(* process_papers, stage by stage                                          *)
(***************************************************************************)

\* the raw record had _clean_paper_text written into the record itself
RawRecordAliased(paper) ==
    IF ~Truthy(paper.paper_id) \/ ~Truthy(paper.title) THEN paper
    ELSE CleanedPaper(paper)

\* the raw record after the body of the loop of _validate_and_clean_papers:
\* _clean_paper_text assigns to the keys of a copy (paper.copy()), each
\* cleaned list is a new list, and PaperData(...).dict() is a new dict, so
\* the record is as it was
RawRecordAfter(paper) == paper

\* the caller's list of raw records after _validate_and_clean_papers
RawPapersAfter(papers) == [ i \in 1..Len(papers) |-> RawRecordAfter(papers[i]) ]

\* Step 1: basic validation and cleanup
Validate ==
    /\ pc = "start"
    /\ UNCHANGED outside
    /\ start_time' = clock
    /\ validated_papers' = _validate_and_clean_papers(raw_papers)
    /\ raw_papers' = RawPapersAfter(raw_papers)
    /\ clock' = clock + 1
    /\ pc' = "validated"
    /\ UNCHANGED << existing_paper_ids, today, min_quality_score, deduplicated_papers,
                    quality_filtered_papers, enriched_papers, result,
                    statistics, run, first_run >>

\* the caller's set had seen_ids been the set itself and not a copy
CallerSetAliased(existing_ids, seen_ids) == seen_ids

\* the caller's set after _deduplicate_papers: seen_ids is a copy
\* (set(existing_ids)), so adding to it leaves the argument as it was
CallerSetAfter(existing_ids, seen_ids) == existing_ids

\* Step 2: remove duplicates
Deduplicate ==
    /\ pc = "validated"
    /\ UNCHANGED outside
    /\ \E st \in { _deduplicate_papers(validated_papers, existing_paper_ids) } :
           /\ deduplicated_papers' = IF st.raised THEN << >> ELSE st.deduplicated
           /\ existing_paper_ids' = CallerSetAfter(existing_paper_ids, st.seen_ids)
           /\ pc' = IF st.raised THEN "raised" ELSE "deduplicated"
    /\ clock' = clock + 1
    /\ UNCHANGED << raw_papers, today, min_quality_score, start_time,
                    validated_papers, quality_filtered_papers, enriched_papers,
                    result, statistics, run, first_run >>

\* Step 3: quality assessment and filtering
AssessQuality ==
    /\ pc = "deduplicated"
    /\ UNCHANGED outside
    /\ \E st \in { _assess_and_filter_quality(deduplicated_papers, today,
                                                min_quality_score) } :
           /\ deduplicated_papers' = st.scored
           /\ quality_filtered_papers' = IF st.raised THEN << >> ELSE st.quality_papers
           /\ pc' = IF st.raised THEN "raised" ELSE "scored"
    /\ clock' = clock + 1
    /\ UNCHANGED << inputs, min_quality_score, start_time, validated_papers,
                    enriched_papers, result, statistics, run, first_run >>

\* Step 4: data enrichment
Enrich ==
    /\ pc = "scored"
    /\ UNCHANGED outside
    /\ \E st \in { _enrich_paper_data(quality_filtered_papers, clock) } :
           /\ enriched_papers' = st.enriched_papers
           /\ pc' = IF st.raised THEN "raised" ELSE "enriched"
    /\ clock' = clock + 1
    /\ UNCHANGED << inputs, min_quality_score, start_time, validated_papers,
                    deduplicated_papers, quality_filtered_papers, result,
                    statistics, run, first_run >>

\* the ProcessingResult with the duplicates counted from the input batch
ProcessingResultCountingFromInput(final_papers, now) ==
    LET duplicates_removed == Len(raw_papers) - Len(deduplicated_papers)
        quality_filtered == Len(deduplicated_papers) - Len(quality_filtered_papers)
    IN  [ processed_papers   |-> final_papers,
          duplicates_removed |-> duplicates_removed,
          quality_filtered   |-> quality_filtered,
          enriched_count     |-> Len(enriched_papers),
          processing_stats   |->
              [ processing_time_seconds |-> now - start_time,
                input_papers            |-> Len(raw_papers),
                validated_papers        |-> Len(validated_papers),
                deduplicated_papers     |-> Len(deduplicated_papers),
                quality_filtered_papers |-> Len(quality_filtered_papers),
                final_papers            |-> Len(final_papers),
                duplicates_removed      |-> duplicates_removed,
                quality_filtered_out    |-> quality_filtered,
                enrichment_applied      |-> Len(enriched_papers),
                processing_timestamp    |-> now ] ]

\* the ProcessingResult of process_papers, with now the clock at return
ProcessingResult(final_papers, now) ==
    LET duplicates_removed == Len(validated_papers) - Len(deduplicated_papers)
        quality_filtered == Len(deduplicated_papers) - Len(quality_filtered_papers)
    IN  [ processed_papers   |-> final_papers,
          duplicates_removed |-> duplicates_removed,
          quality_filtered   |-> quality_filtered,
          enriched_count     |-> Len(enriched_papers),
          processing_stats   |->
              [ processing_time_seconds |-> now - start_time,
                input_papers            |-> Len(raw_papers),
                validated_papers        |-> Len(validated_papers),
                deduplicated_papers     |-> Len(deduplicated_papers),
                quality_filtered_papers |-> Len(quality_filtered_papers),
                final_papers            |-> Len(final_papers),
                duplicates_removed      |-> duplicates_removed,
                quality_filtered_out    |-> quality_filtered,
                enrichment_applied      |-> Len(enriched_papers),
                processing_timestamp    |-> now ] ]

\* Step 5: final standardization, the stats, and the return
StandardizeAndReturn ==
    /\ pc = "enriched"
    /\ UNCHANGED outside
    /\ result' = ProcessingResult(_standardize_for_storage(enriched_papers, clock),
                                  clock + 1)
    /\ clock' = clock + 2
    /\ pc' = "returned"
    /\ UNCHANGED << inputs, min_quality_score, start_time, validated_papers,
                    deduplicated_papers, quality_filtered_papers,
                    enriched_papers, statistics, run, first_run >>

\* The caller asks for the statistics of the batch it got back
GetStatistics ==
    /\ pc = "returned"
    /\ UNCHANGED outside
    /\ statistics' = get_processing_statistics(result.processed_papers)
    /\ pc' = "reported"
    /\ UNCHANGED << inputs, min_quality_score, clock, start_time,
                    validated_papers, deduplicated_papers,
                    quality_filtered_papers, enriched_papers, result, run,
                    first_run >>

\* The caller calls process_papers a second time with the arguments of the
\* first call, under a minimum score that is the same or higher
CallAgain ==
    /\ run = 1
    /\ UNCHANGED outside
    /\ pc \in {"reported", "raised"}
    /\ \E t \in MinScores :
           /\ FGreaterEq(t, min_quality_score)
           /\ min_quality_score' = t
    /\ first_run' = [ pc |-> pc, result |-> result,
                      min_quality_score |-> min_quality_score ]
    /\ run' = 2
    /\ pc' = "start"
    /\ start_time' = 0
    /\ validated_papers' = << >>
    /\ deduplicated_papers' = << >>
    /\ quality_filtered_papers' = << >>
    /\ enriched_papers' = << >>
    /\ result' = NoResult
    /\ statistics' = EmptyDict
    /\ UNCHANGED << inputs, clock >>

Next ==
    \/ Validate
    \/ Deduplicate
    \/ AssessQuality
    \/ Enrich
    \/ StandardizeAndReturn
    \/ GetStatistics
    \/ CallAgain

Spec == Init /\ [][Next]_vars

(***************************************************************************)
(* Calls of single methods                                                 *)
(*                                                                         *)
(* A caller hands one argument to one method of PaperProcessor and keeps   *)
(* what the method returns.                                                *)
(***************************************************************************)

\* the variables of process_papers and of its caller
pipeline == << raw_papers, existing_paper_ids, min_quality_score, today, clock,
               pc, start_time, validated_papers, deduplicated_papers,
               quality_filtered_papers, enriched_papers, result, statistics,
               run, first_run >>

\* process_papers is not being called
NoPipeline ==
    /\ raw_papers = << >>
    /\ existing_paper_ids = {}
    /\ min_quality_score = R(4, 10)
    /\ today = 1000
    /\ clock = 0
    /\ pc = "none"
    /\ start_time = 0
    /\ validated_papers = << >>
    /\ deduplicated_papers = << >>
    /\ quality_filtered_papers = << >>
    /\ enriched_papers = << >>
    /\ result = NoResult
    /\ statistics = EmptyDict
    /\ run = 1
    /\ first_run = NoRun

\* Longest category list handed to _standardize_categories
MaxCategories == 3

\* Category codes as a record can carry them: known and unknown codes in
\* several letter cases, with blanks around them, blank and empty
CategoryCodes == { "cs.ai", "CS.LG", " cs.lg ", "math.ST", " ", "" }

\* settings.RELEVANT_CATEGORIES
RELEVANT_CATEGORIES ==
    { "cs.AI", "cs.LG", "cs.IR", "cs.CV", "cs.CL", "stat.ML", "cs.HC", "cs.DB" }

\* The relevant codes as upstream can spell them: as configured, lowercased
\* and uppercased
RelevantSpellings ==
    UNION { { code, Lower(code), Upper(code) } : code \in RELEVANT_CATEGORIES }

CategoryLists ==
    SeqsUpTo(CategoryCodes, MaxCategories)
        \cup { << code >> : code \in RelevantSpellings }

\* Largest number of validated records handed to _deduplicate_papers
MaxDedup == 3

\* Validated batches
ValidatedLists == SeqsUpTo(ValidatedPool, MaxDedup)

\* Longest category list of a cleaned record handed to
\* _score_category_relevance
MaxScored == 6

\* Category codes of a cleaned record: two relevant ones and five others,
\* as _standardize_categories writes them
StandardCodes ==
    { "cs.AI", "cs.LG", "CS.HC", "MATH.ST", "ECON.TH", "Q-BIO.NC", "EESS.SP" }

RECURSIVE DistinctSeqs(_, _)
\* the sequences over S of length at most n that hold no element twice
DistinctSeqs(S, n) ==
    IF n = 0 THEN { << >> }
    ELSE LET shorter == DistinctSeqs(S, n - 1)
         IN  shorter \cup { Append(q[1], q[2]) :
                               q \in { r \in shorter \X S : r[2] \notin SetOf(r[1]) } }

\* The category lists of cleaned records: _standardize_categories leaves no
\* duplicate
StandardLists == DistinctSeqs(StandardCodes, MaxScored)

\* Largest number of pieces a text handed to _clean_text is made of
MaxPieces == 5

\* Pieces of text: a letter, blanks, the characters of markup, a tag and an
\* entity reference
TextPieces == { "a", " ", "\n", "&", ";", "<b>", "&amp;" }

\* Texts as a record can carry them
Texts == { Concat(pieces) : pieces \in SeqsUpTo(TextPieces, MaxPieces) }

\* Greatest age in days of a publication date handed to
\* _score_publication_recency
MaxAge == 400

\* datetime.utcnow().date() at the calls of _score_publication_recency:
\* 2024-03-01
RecencyToday == ToOrdinal(2024, 3, 1)

\* Publication dates given as str
DateTexts ==
    { "2024-02-20", "2023-01-26", "2024-2-20", "2024-02- 3", "2024-02-29",
      "2024-01-31", "2024-03-06", "0001-01-01", "2024-02-30", "2023-02-29",
      "2024-13-01", "0000-01-01", "2024-00-10", "2024-02-00", "2024-02-32",
      "2024/02/20", "2024-02-20 ", "24-02-20", "2024-02-20T00:00:00",
      "2024--02-20", "2024-02", "junk", "" }

\* Publication dates: absent, a date of some age, a str
PublicationDates ==
    {NoDate} \cup { Date(RecencyToday - age) : age \in (-5)..MaxAge }
             \cup { StrDate(text) : text \in DateTexts }

\* the call fn(arg), not yet made
Pending(fn, arg) == [ fn |-> fn, arg |-> arg, done |-> FALSE ]

\* the call after it returned ret
ReturnedFrom(c, ret) == [ fn |-> c.fn, arg |-> c.arg, done |-> TRUE, ret |-> ret ]

\* the call of fn has returned
Called(fn) == call.fn = fn /\ call.done

CallsInit ==
    /\ NoPipeline
    /\ NoService
    /\ \/ \E categories \in CategoryLists :
              call = Pending("_standardize_categories", categories)
       \/ \E papers \in TitleBatches :
              call = Pending("_validate_and_clean_papers", papers)
       \/ \E text \in Texts :
              call = Pending("_clean_text", text)
       \/ \E publication_date \in PublicationDates :
              call = Pending("_score_publication_recency", publication_date)
       \/ \E categories \in StandardLists :
              call = Pending("_score_category_relevance", categories)
       \/ \E papers \in ValidatedLists, existing_ids \in KnownSets :
              call = Pending("_deduplicate_papers",
                             [ papers |-> papers, existing_ids |-> existing_ids ])

\* self._standardize_categories(categories)
CallStandardizeCategories ==
    /\ call.fn = "_standardize_categories"
    /\ ~call.done
    /\ call' = ReturnedFrom(call, _standardize_categories(call.arg))
    /\ UNCHANGED << pipeline, service >>

\* await self._validate_and_clean_papers(raw_papers)
CallValidateAndClean ==
    /\ call.fn = "_validate_and_clean_papers"
    /\ ~call.done
    /\ call' = ReturnedFrom(call, _validate_and_clean_papers(call.arg))
    /\ UNCHANGED << pipeline, service >>

\* self._clean_text(text)
CallCleanText ==
    /\ call.fn = "_clean_text"
    /\ ~call.done
    /\ call' = ReturnedFrom(call, _clean_text(call.arg))
    /\ UNCHANGED << pipeline, service >>

\* self._score_publication_recency(publication_date) on RecencyToday
CallScorePublicationRecency ==
    /\ call.fn = "_score_publication_recency"
    /\ ~call.done
    /\ call' = ReturnedFrom(call, _score_publication_recency(call.arg, RecencyToday))
    /\ UNCHANGED << pipeline, service >>

\* The record goes from _clean_paper_text to _calculate_quality_score:
\* categories = paper.get('categories', []) is the list that
\* _standardize_categories returned for the raw list
PassCategoriesToScorer ==
    /\ Called("_standardize_categories")
    /\ NonEmpty(call.arg)
    /\ call' = [ fn |-> "_score_category_relevance", arg |-> call.ret,
                 done |-> FALSE, raw |-> call.arg ]
    /\ UNCHANGED << pipeline, service >>

\* the call after it returned ret, with every other field as it was
ReturnedKeeping(c, ret) ==
    [ k \in DOMAIN c \cup {"ret"} |->
        IF k = "ret" THEN ret ELSE IF k = "done" THEN TRUE ELSE c[k] ]

\* self._score_category_relevance(categories)
CallScoreCategoryRelevance ==
    /\ call.fn = "_score_category_relevance"
    /\ ~call.done
    /\ call' = ReturnedKeeping(call, _score_category_relevance(call.arg))
    /\ UNCHANGED << pipeline, service >>

\* await self._deduplicate_papers(papers, existing_ids); the loop state is
\* kept as the outcome
CallDeduplicatePapers ==
    /\ call.fn = "_deduplicate_papers"
    /\ ~call.done
    /\ call' = ReturnedKeeping(call, _deduplicate_papers(call.arg.papers,
                                                         call.arg.existing_ids))
    /\ UNCHANGED << pipeline, service >>

\* The caller hands the returned list to _deduplicate_papers again, with
\* the set it passed the first time
DeduplicateAgain ==
    /\ Called("_deduplicate_papers")
    /\ "first" \notin DOMAIN call
    /\ ~call.ret.raised
    /\ call' = [ fn |-> "_deduplicate_papers",
                 arg |-> [ papers |-> call.ret.deduplicated,
                           existing_ids |-> CallerSetAfter(call.arg.existing_ids,
                                                           call.ret.seen_ids) ],
                 done |-> FALSE,
                 first |-> call.arg ]
    /\ UNCHANGED << pipeline, service >>

CallsNext ==
    \/ CallStandardizeCategories
    \/ CallDeduplicatePapers
    \/ DeduplicateAgain
    \/ PassCategoriesToScorer
    \/ CallScoreCategoryRelevance
    \/ CallScorePublicationRecency
    \/ CallCleanText
    \/ CallValidateAndClean

SpecCalls == CallsInit /\ [][CallsNext]_vars

(***************************************************************************)
(* The service of main.py                                                  *)
(*                                                                         *)
(* POST /discover and GET /status are handled on one event loop; a run of  *)
(* _background_paper_discovery gives way to the others at its awaits.      *)
(***************************************************************************)

\* Largest number of jobs the service is asked to start
MaxJobs == 2

\* The job identifiers f"job-{uuid.uuid4()}" can give
JobIds == 1..MaxJobs

\* A job identifier no POST /discover has returned
UnknownJob == 0

\* DiscoveryRequest and DiscoveryResponse are imported from
\* models/paper_models.py, which does not define them; they are taken from
\* their uses in discover_papers and in the tests.
DiscoveryRequest(queries, max_results_per_query) ==
    [ queries |-> queries, max_results_per_query |-> max_results_per_query ]
DiscoveryResponse(job_id, status, papers_discovered) ==
    [ job_id |-> job_id, status |-> status, papers_discovered |-> papers_discovered ]

\* The bodies of POST /discover
Requests ==
    { DiscoveryRequest(queries, 10) : queries \in { << >>, << "q" >>, << "q", "ml" >> } }

\* A paper as ArxivClient hands it over: the dict of _convert_arxiv_result
ArxivPaper(paper_id) == [ type |-> "dict", paper_id |-> paper_id ]

\* What _fetch_papers_for_query can come back with for one query: an
\* exception (after the retries), or the papers ArXiv finds
QueryOutcomes ==
    { [ raised |-> TRUE,  papers |-> << >> ],
      [ raised |-> FALSE, papers |-> << >> ],
      [ raised |-> FALSE, papers |-> << ArxivPaper("pA") >> ],
      [ raised |-> FALSE, papers |-> << ArxivPaper("pA"), ArxivPaper("pB") >> ] }

\* The contents the papers table can have
StoredSets == { {}, {"pA"} }

RECURSIVE UniqueById(_, _)
\* the loop of fetch_papers that removes duplicates by paper_id
UniqueById(all_papers, seen_ids) ==
    IF Len(all_papers) = 0 THEN << >>
    ELSE IF Head(all_papers).paper_id \in seen_ids
    THEN UniqueById(Tail(all_papers), seen_ids)
    ELSE << Head(all_papers) >>
             \o UniqueById(Tail(all_papers), seen_ids \cup {Head(all_papers).paper_id})

\* the results of all_results that are no exception, in order
PapersOf(all_results) ==
    Flatten([ i \in 1..Len(all_results) |->
                IF all_results[i].raised THEN << >> ELSE all_results[i].papers ])

\* ArxivClient.fetch_papers(queries, max_results_per_query), with
\* all_results what asyncio.gather returns: one outcome for each element of
\* queries.  queries is iterated, so a str gives one task for each of its
\* characters.
fetch_papers(queries, all_results) == UniqueById(PapersOf(all_results), {})

\* The values asyncio.gather can return for the elements of queries
GatherResults(queries) == [ 1..Len(queries) -> QueryOutcomes ]

\* AsyncBigQueryClient.check_existing_papers(paper_ids), with rows the
\* paper ids the query finds and failed = TRUE when the query raises
check_existing_papers(paper_ids, rows, failed) ==
    IF ~NonEmpty(paper_ids) THEN << >>
    ELSE IF failed THEN << >>
    ELSE rows

\* The methods of AsyncBigQueryClient
BigQueryMethods == { "_get_client", "store_papers", "check_existing_papers" }

\* value.name raises AttributeError: a dict has no attribute for its keys
AttributeRaises(value, name) == value.type = "dict" \/ name \notin DOMAIN value

\* paper.id, when it does not raise
AttributeId(paper) == paper.id

\* [paper for paper in papers if paper.id not in existing_ids]
NewPapers(papers, existing_ids) ==
    IF \E i \in 1..Len(papers) : AttributeRaises(papers[i], "id")
    THEN [ raised |-> TRUE, new_papers |-> << >> ]
    ELSE [ raised |-> FALSE,
           new_papers |-> SelectSeq(papers,
                              LAMBDA paper : AttributeId(paper) \notin SetOf(existing_ids)) ]

\* _background_paper_discovery without the outer except: a raised
\* exception ends the task and leaves the status alone
IngestAndStatusWithoutExcept(filtered) ==
    IF filtered.raised
    THEN [ ingested |-> << >>, status |-> "in_progress" ]
    ELSE [ ingested |-> << << "ingest_papers", filtered.new_papers >> >>,
           status |-> "completed" ]

\* Lines 109 to 124 of _background_paper_discovery from the filtered
\* papers: the call of ingest_papers if one is made, and the job status
IngestAndStatus(filtered) ==
    IF filtered.raised
    THEN [ ingested |-> << >>, status |-> "failed" ]
    ELSE IF ~NonEmpty(filtered.new_papers)
    THEN [ ingested |-> << >>, status |-> "completed" ]
    ELSE IF "ingest_papers" \notin BigQueryMethods
    THEN [ ingested |-> << >>, status |-> "failed" ]
    ELSE [ ingested |-> << << "ingest_papers", filtered.new_papers >> >>,
           status |-> "completed" ]

\* f with the value v at the key k
WithKey(f, k, v) == [ x \in DOMAIN f \cup {k} |-> IF x = k THEN v ELSE f[x] ]

\* the run of _background_paper_discovery that add_task schedules
NewTask(request, answer) ==
    [ pc |-> "start", queries |-> request.queries,
      max_results_per_query |-> request.max_results_per_query,
      existing_ids |-> << >>, next_query |-> 1, papers |-> << >>,
      calls |-> << >>, answer |-> answer ]

ServiceInit ==
    /\ NoPipeline
    /\ call = NoCall
    /\ job_status = << >>
    /\ background_tasks = << >>
    /\ response = [endpoint |-> "none"]
    /\ bigquery_papers \in StoredSets

\* discover_papers with an empty query list: HTTP 400
DiscoverRejected ==
    /\ \E request \in Requests :
           /\ ~NonEmpty(request.queries)
           /\ response' = [ endpoint |-> "/discover", status_code |-> 400,
                            detail |-> "At least one query must be provided" ]
    /\ UNCHANGED << job_status, background_tasks, bigquery_papers, pipeline, call >>

\* discover_papers with at least one query
DiscoverAccepted ==
    /\ \E request \in Requests, job_id \in JobIds \ DOMAIN job_status :
           /\ NonEmpty(request.queries)
           /\ job_status' = WithKey(job_status, job_id, "in_progress")
           /\ background_tasks' =
                  WithKey(background_tasks, job_id,
                          NewTask(request, DiscoveryResponse(job_id, "in_progress", 0)))
           /\ response' = [ endpoint |-> "/discover", status_code |-> 200,
                            body |-> DiscoveryResponse(job_id, "in_progress", 0) ]
    /\ UNCHANGED << bigquery_papers, pipeline, call >>

\* _background_paper_discovery up to the first fetch: line 97
TaskCheckExisting(job_id) ==
    /\ job_id \in DOMAIN background_tasks
    /\ background_tasks[job_id].pc = "start"
    /\ \E failed \in BOOLEAN :
           background_tasks' =
               [ background_tasks EXCEPT
                   ![job_id].existing_ids =
                       check_existing_papers(<< >>, bigquery_papers, failed),
                   ![job_id].calls = Append(@, << "check_existing_papers", << >> >>),
                   ![job_id].pc = "fetch" ]
    /\ UNCHANGED << job_status, response, bigquery_papers, pipeline, call >>

\* One iteration of the loop over the queries: lines 102 to 107
TaskFetch(job_id) ==
    /\ job_id \in DOMAIN background_tasks
    /\ background_tasks[job_id].pc = "fetch"
    /\ background_tasks[job_id].next_query <= Len(background_tasks[job_id].queries)
    /\ \E query \in { background_tasks[job_id].queries[background_tasks[job_id].next_query] } :
       \E all_results \in GatherResults(query) :
           background_tasks' =
               [ background_tasks EXCEPT
                   ![job_id].papers = @ \o fetch_papers(query, all_results),
                   ![job_id].calls =
                       Append(@, << "fetch_papers", query,
                                    background_tasks[job_id].max_results_per_query >>),
                   ![job_id].next_query = @ + 1 ]
    /\ UNCHANGED << job_status, response, bigquery_papers, pipeline, call >>

\* After the loop: the filter, the ingest and the job status, lines 109 to
\* 124
TaskFinish(job_id) ==
    /\ job_id \in DOMAIN background_tasks
    /\ background_tasks[job_id].pc = "fetch"
    /\ background_tasks[job_id].next_query > Len(background_tasks[job_id].queries)
    /\ \E end \in { IngestAndStatus(NewPapers(background_tasks[job_id].papers,
                                              background_tasks[job_id].existing_ids)) } :
           /\ background_tasks' =
                  [ background_tasks EXCEPT
                      ![job_id].calls = @ \o end.ingested,
                      ![job_id].pc = "done" ]
           /\ job_status' = [ job_status EXCEPT ![job_id] = end.status ]
    /\ UNCHANGED << response, bigquery_papers, pipeline, call >>

\* job_status.get(job_id, "not_found")
StatusOf(job_id) ==
    IF job_id \in DOMAIN job_status THEN job_status[job_id] ELSE "not_found"

\* get_job_status
GetJobStatus ==
    /\ \E job_id \in JobIds \cup {UnknownJob} :
           response' = [ endpoint |-> "/status", status_code |-> 200,
                         job_id |-> job_id, status |-> StatusOf(job_id) ]
    /\ UNCHANGED << job_status, background_tasks, bigquery_papers, pipeline, call >>

\* a step of the run of _background_paper_discovery for job_id
TaskStep(job_id) ==
    TaskCheckExisting(job_id) \/ TaskFetch(job_id) \/ TaskFinish(job_id)

ServiceNext ==
    \/ DiscoverRejected
    \/ DiscoverAccepted
    \/ \E job_id \in JobIds : TaskCheckExisting(job_id)
    \/ \E job_id \in JobIds : TaskFetch(job_id)
    \/ \E job_id \in JobIds : TaskFinish(job_id)
    \/ GetJobStatus

SpecService == ServiceInit /\ [][ServiceNext]_vars

\* The event loop runs every background task that can take a step
SpecServiceFair ==
    SpecService /\ \A job_id \in JobIds : WF_vars(TaskStep(job_id))

(***************************************************************************)
(* Properties of the deduplication                                         *)
(***************************************************************************)

\* process_papers has returned its ProcessingResult
Returned == pc \in {"returned", "reported"}

\* the final records of the call
FinalRecords == result.processed_papers

\* the identifiers of a list of records
IdsOf(papers) == { papers[i].paper_id : i \in 1..Len(papers) }

\* ContentFingerprint of a record: lowercased title, first 500 characters of
\* the lowercased abstract, sorted author list
ContentFingerprint(record) ==
    << Lower(record.title), Prefix(Lower(record.abstract), 500),
       Sorted(record.authors) >>

\* C1: after process_papers has returned, no two final records have the same
\* ContentFingerprint, no two have the same identifier, and no final record
\* has an identifier of the known set.
C1_DedupInvariant ==
    Returned =>
        \A i \in 1..Len(FinalRecords) :
            /\ FinalRecords[i].paper_id \notin existing_paper_ids
            /\ \A j \in 1..Len(FinalRecords) :
                   i /= j =>
                       /\ FinalRecords[i].paper_id /= FinalRecords[j].paper_id
                       /\ ContentFingerprint(FinalRecords[i])
                              /= ContentFingerprint(FinalRecords[j])

\* Two validated records with different identifiers, short titles and one
\* ContentFingerprint went in, and one final record came out.
C1_Witness ==
    /\ Returned
    /\ Len(validated_papers) = 2
    /\ validated_papers[1].paper_id /= validated_papers[2].paper_id
    /\ Len(validated_papers[1].title) < 10
    /\ ContentFingerprint(validated_papers[1]) = ContentFingerprint(validated_papers[2])
    /\ IdsOf(FinalRecords) = { validated_papers[1].paper_id }

\* 5 * |A \cap B| <= 4 * |A \cup B| for the title word sets of two records
JaccardAtMostFourFifths(a, b) ==
    5 * Cardinality(TitleWords(a.title) \cap TitleWords(b.title))
        <= 4 * Cardinality(TitleWords(a.title) \cup TitleWords(b.title))

\* C2: for every pair of distinct final records whose titles both have at
\* least 10 characters, the Jaccard similarity of the lowercased,
\* whitespace-split title word sets is at most 0.8.
C2_NearDuplicateInvariant ==
    Returned =>
        \A i, j \in 1..Len(FinalRecords) :
            (i /= j /\ Len(FinalRecords[i].title) >= 10
                    /\ Len(FinalRecords[j].title) >= 10)
                => JaccardAtMostFourFifths(FinalRecords[i], FinalRecords[j])

\* Two validated records with long titles of similarity above 0.8 and
\* different fingerprints went in, and only the first came out.
C2_Witness ==
    /\ Returned
    /\ Len(validated_papers) = 2
    /\ Len(validated_papers[1].title) >= 10
    /\ Len(validated_papers[2].title) >= 10
    /\ validated_papers[1].title /= validated_papers[2].title
    /\ ~JaccardAtMostFourFifths(validated_papers[1], validated_papers[2])
    /\ IdsOf(FinalRecords) = { validated_papers[1].paper_id }

\* r is to be dropped by the rules of the Deduplicator, given the known
\* identifiers and the records accepted before it
Dropped(r, accepted, known) ==
    \/ r.paper_id \in known
    \/ \E k \in 1..Len(accepted) : accepted[k].paper_id = r.paper_id
    \/ \E k \in 1..Len(accepted) :
           ContentFingerprint(accepted[k]) = ContentFingerprint(r)
    \/ /\ Len(r.title) >= 10
       /\ \E k \in 1..Len(accepted) : ~JaccardAtMostFourFifths(r, accepted[k])

RECURSIVE AcceptedFrom(_, _, _)
\* the records of papers accepted in input order after those of accepted
AcceptedFrom(accepted, papers, known) ==
    IF Len(papers) = 0 THEN accepted
    ELSE AcceptedFrom(IF Dropped(Head(papers), accepted, known) THEN accepted
                      ELSE Append(accepted, Head(papers)),
                      Tail(papers), known)

\* C3: the output of the Deduplicator is exactly, in input order, the
\* validated records that are not dropped for a known identifier, for the
\* identifier or the ContentFingerprint of an earlier accepted record, or
\* for a title of at least 10 characters with similarity above 0.8 to an
\* earlier accepted title.
C3_DeduplicatorOutput ==
    pc = "deduplicated" =>
        deduplicated_papers = AcceptedFrom(<< >>, validated_papers, existing_paper_ids)

\* validated_papers[i] and validated_papers[j] have the same title and the
\* same abstract under different identifiers, neither of them known
Twins(i, j) ==
    /\ validated_papers[i].title = validated_papers[j].title
    /\ validated_papers[i].abstract = validated_papers[j].abstract
    /\ validated_papers[i].paper_id /= validated_papers[j].paper_id
    /\ validated_papers[i].paper_id \notin existing_paper_ids
    /\ validated_papers[j].paper_id \notin existing_paper_ids

\* validated_papers[i] is in the output of the Deduplicator
Survives(i) == validated_papers[i] \in SetOf(deduplicated_papers)

C5_NeverRaises == pc /= "raised"

(***************************************************************************)
(* Properties of the scores                                                *)
(***************************************************************************)

\* the exact weighted sum with the weights 0.25, 0.30, 0.15, 0.20, 0.10
ConvexCombination(score) ==
    RAdd(RAdd(RAdd(RAdd(RMul(R(25, 100), score.title_score),
                        RMul(R(30, 100), score.abstract_score)),
                   RMul(R(15, 100), score.author_score)),
              RMul(R(20, 100), score.category_score)),
         RMul(R(10, 100), score.recency_score))

\* the five sub-scores and the overall score lie in [0, 1], and the overall
\* score is the weighted sum of the sub-scores
WithinUnitInterval(score) ==
    /\ \A f \in DOMAIN score :
           FLessEq(R(0, 1), score[f]) /\ FLessEq(score[f], R(1, 1))
    /\ [score.overall_score EXCEPT !.ulp = 0] = ConvexCombination(score)

\* C6: for every record handed to the Quality Scorer, the five sub-scores
\* and the overall score computed for it lie in [0, 1], the overall score
\* being the weighted sum with the weights 0.25, 0.30, 0.15, 0.20, 0.10.
C6_ScoresInUnitInterval ==
    pc = "deduplicated" =>
        \A i \in 1..Len(deduplicated_papers) :
            WithinUnitInterval(QualityScoreOf[deduplicated_papers[i]][today])

\* The second call has returned after a first call that returned
BothReturned == run = 2 /\ Returned /\ first_run.pc = "reported"

\* C7: for the same batch and the same known identifiers, the identifiers
\* in the output under a minimum score t2 >= t1 are among those in the
\* output under t1.
C7_ThresholdMonotonic ==
    BothReturned => IdsOf(FinalRecords) \subseteq IdsOf(first_run.result.processed_papers)

\* The second call ran under a higher minimum score and returned some, but
\* not all, of the records of the first.
C7_Witness ==
    /\ BothReturned
    /\ FLess(first_run.min_quality_score, min_quality_score)
    /\ IdsOf(FinalRecords) /= {}
    /\ IdsOf(FinalRecords) /= IdsOf(first_run.result.processed_papers)

\* a final record without its timestamps
WithoutTimestamps(record) ==
    [ k \in DOMAIN record \ {"created_at", "processing_timestamp"} |-> record[k] ]

\* the counts of processing_stats
CountsOf(stats) ==
    [ k \in DOMAIN stats \ {"processing_time_seconds", "processing_timestamp"} |->
        stats[k] ]

\* two results with the same final records, timestamps apart, and the same
\* counts
SameContent(a, b) ==
    /\ Len(a.processed_papers) = Len(b.processed_papers)
    /\ \A i \in 1..Len(a.processed_papers) :
           WithoutTimestamps(a.processed_papers[i])
               = WithoutTimestamps(b.processed_papers[i])
    /\ a.duplicates_removed = b.duplicates_removed
    /\ a.quality_filtered = b.quality_filtered
    /\ a.enriched_count = b.enriched_count
    /\ CountsOf(a.processing_stats) = CountsOf(b.processing_stats)

TitleOnly(paper) == paper.title = "ML" /\ ~Truthy(paper.abstract)

\* no final record is the one made from paper
AbsentFromOutput(paper) ==
    \A k \in 1..Len(FinalRecords) :
        ~(/\ FinalRecords[k].paper_id = paper.paper_id
          /\ FinalRecords[k].title = paper.title)

\* C9 as stated: a record with title "ML" and no abstract, whatever its
\* authors, categories and date, gets abstract score 0.0, title score at
\* most 0.4 and an overall score below 0.4, and is absent from the output
\* under the minimum score 0.4.
C9_TitleOnlyFiltered ==
    pc /= "start" =>
        \A i \in 1..Len(validated_papers) :
            TitleOnly(validated_papers[i]) =>
                /\ QualityScoreOf[validated_papers[i]][today].abstract_score = R(0, 1)
                /\ FLessEq(QualityScoreOf[validated_papers[i]][today].title_score, R(4, 10))
                /\ FLess(QualityScoreOf[validated_papers[i]][today].overall_score, R(4, 10))
                /\ (Returned /\ min_quality_score = R(4, 10))
                       => AbsentFromOutput(validated_papers[i])

\* the scores of a title-only record: abstract 0.0, title 0.3, overall at
\* most 0.525, and below 0.4 when the category score is at most 0.2
TitleOnlyScores(score) ==
    /\ score.abstract_score = R(0, 1)
    /\ score.title_score = R(3, 10)
    /\ FLessEq(score.overall_score, R(525, 1000))
    /\ FLessEq(score.category_score, R(2, 10)) => FLess(score.overall_score, R(4, 10))

\* C9, amended: such a record gets abstract score 0.0, title score 0.3 and
\* an overall score of at most 0.525; when none of its categories is
\* relevant (category score at most 0.2) the overall score is below 0.4 and
\* the record is absent from the output under the minimum score 0.4.
C9_TitleOnlyScores ==
    pc /= "start" =>
        \A i \in 1..Len(validated_papers) :
            TitleOnly(validated_papers[i]) =>
                /\ TitleOnlyScores(QualityScoreOf[validated_papers[i]][today])
                /\ (/\ Returned
                    /\ min_quality_score = R(4, 10)
                    /\ FLessEq(QualityScoreOf[validated_papers[i]][today].category_score,
                               R(2, 10)))
                       => AbsentFromOutput(validated_papers[i])

\* A title-only record without a relevant category was scored next to a
\* record that reached the output under the minimum score 0.4.
C9_Witness ==
    /\ Returned
    /\ min_quality_score = R(4, 10)
    /\ Len(FinalRecords) = 1
    /\ \E i \in 1..Len(deduplicated_papers) :
           /\ TitleOnly(deduplicated_papers[i])
           /\ FLessEq(deduplicated_papers[i].quality_score.category_score, R(2, 10))
           /\ FLess(deduplicated_papers[i].quality_score.overall_score, R(4, 10))
           /\ deduplicated_papers[i].paper_id \notin IdsOf(FinalRecords)

\* every count of a processing_stats is zero
AllCountsZero(stats) ==
    /\ stats.input_papers = 0
    /\ stats.validated_papers = 0
    /\ stats.deduplicated_papers = 0
    /\ stats.quality_filtered_papers = 0
    /\ stats.final_papers = 0
    /\ stats.duplicates_removed = 0
    /\ stats.quality_filtered_out = 0
    /\ stats.enrichment_applied = 0

\* C10: for an empty batch process_papers does not raise and returns no
\* final record and a processing_stats whose counts are all zero, and
\* get_processing_statistics returns the empty structure.
C10_EmptyBatch ==
    raw_papers = << >> =>
        /\ pc /= "raised"
        /\ Returned =>
               /\ FinalRecords = << >>
               /\ result.duplicates_removed = 0
               /\ result.quality_filtered = 0
               /\ result.enriched_count = 0
               /\ AllCountsZero(result.processing_stats)
        /\ pc = "reported" => statistics = EmptyDict

\* The call on the empty batch has returned and the statistics are taken.
C10_Witness ==
    /\ raw_papers = << >>
    /\ pc = "reported"
    /\ result.processing_stats.input_papers = 0
    /\ statistics = EmptyDict

(***************************************************************************)
(* Properties of the Text Normalizer                                       *)
(***************************************************************************)

\* the case-correction table of the known codes
CaseCorrection ==
    { << "cs.ai", "cs.AI" >>, << "cs.lg", "cs.LG" >>, << "cs.ir", "cs.IR" >>,
      << "cs.cv", "cs.CV" >>, << "cs.cl", "cs.CL" >>, << "stat.ml", "stat.ML" >> }

\* the canonical form of a code: lowercased and trimmed, then corrected by
\* the table if known, otherwise uppercased
CanonicalForm(code) ==
    IF \E row \in CaseCorrection : row[1] = Strip(Lower(code))
    THEN (CHOOSE row \in CaseCorrection : row[1] = Strip(Lower(code)))[2]
    ELSE Upper(Strip(Lower(code)))

\* the position in codes of the first of the entries at positions from whose
\* canonical form is form
FirstWith(codes, from, form) ==
    CHOOSE i \in from : CanonicalForm(codes[i]) = form
                           /\ \A j \in from : CanonicalForm(codes[j]) = form => i <= j

\* normalized holds the canonical forms of the entries of codes at the
\* positions from, once each, in the order of their first occurrence
CanonicalInOrder(codes, from, normalized) ==
    /\ \A p, q \in 1..Len(normalized) : p /= q => normalized[p] /= normalized[q]
    /\ SetOf(normalized) = { CanonicalForm(codes[i]) : i \in from }
    /\ \A p, q \in 1..Len(normalized) :
           p < q => FirstWith(codes, from, normalized[p])
                        < FirstWith(codes, from, normalized[q])

\* C11 as stated: the normalized category list has no duplicate and holds,
\* in the order of first occurrence, the canonical form of each entry of the
\* input list; ["cs.ai", "CS.LG"] gives ["cs.AI", "cs.LG"].
C11_EachCodeCanonical ==
    Called("_standardize_categories") =>
        /\ CanonicalInOrder(call.arg, 1..Len(call.arg), call.ret)
        /\ call.arg = << "cs.ai", "CS.LG" >> => call.ret = << "cs.AI", "cs.LG" >>

\* C11, amended: the normalized category list has no duplicate and holds,
\* in the order of first occurrence, the canonical form of each entry of the
\* input list that is not the empty string (an empty entry is skipped, a
\* blank one gives the empty code); ["cs.ai", "CS.LG"] gives
\* ["cs.AI", "cs.LG"].
C11_NonEmptyCodesCanonical ==
    Called("_standardize_categories") =>
        /\ CanonicalInOrder(call.arg, { i \in 1..Len(call.arg) : call.arg[i] /= "" },
                            call.ret)
        /\ call.arg = << "cs.ai", "CS.LG" >> => call.ret = << "cs.AI", "cs.LG" >>

\* A list with an empty entry and one code in two spellings was normalized
\* to the other code and that code, once.
C11_Witness ==
    /\ Called("_standardize_categories")
    /\ call.arg = << "", "CS.LG", " cs.lg " >>
    /\ call.ret = << "cs.LG" >>

\* text has no blank at either end and no two blanks in a row
WhitespaceNormalized(text) ==
    /\ Strip(text) = text
    /\ \A i \in 1..(Len(text) - 1) : ~(IsSpace(CharAt(text, i)) /\ IsSpace(CharAt(text, i + 1)))

\* text holds no entity reference &name; and no tag-like substring <...>
WithoutMarkup(text) ==
    \A i \in 1..Len(text) : EntityMatchLen(text, i) = 0 /\ TagMatchLen(text, i) = 0

\* C15: for every input text the output of the Text Normalizer has no
\* leading or trailing whitespace, no run of two or more whitespace
\* characters, no entity reference and no tag-like substring, also when an
\* entity or a tag sits between two spaces or inside another.
C15_CleanTextNormalized ==
    Called("_clean_text") =>
        WhitespaceNormalized(call.ret) /\ WithoutMarkup(call.ret)

\* the title of a raw record after normalization
NormalizedTitle(paper) ==
    IF Truthy(paper.title) THEN StripArxivPrefix(_clean_text(paper.title))
    ELSE paper.title

\* the raw record has an identifier and a title that are present and, after
\* normalization, not empty
HasIdentifierAndTitle(paper) ==
    Truthy(paper.paper_id) /\ Truthy(NormalizedTitle(paper))

\* C12: the Validator rejects a record exactly when its identifier or its
\* title is absent or empty after normalization, so that every validated
\* record has a non-empty identifier and a non-empty normalized title, also
\* for a raw title of only blanks, tags, entities or the arxiv: prefix.
C12_RejectsEmptyAfterNormalization ==
    Called("_validate_and_clean_papers") =>
        /\ \A k \in 1..Len(call.ret) :
               Truthy(call.ret[k].paper_id) /\ Truthy(call.ret[k].title)
        /\ Len(call.ret)
               = Cardinality({ i \in 1..Len(call.arg) : HasIdentifierAndTitle(call.arg[i]) })

(***************************************************************************)
(* Properties of the quality filter and of the counts                      *)
(***************************************************************************)

\* the quality score computed for a record of deduplicated_papers
ComputedScore(paper) == QualityScoreOf[Unscored(paper)][today]

\* paper has the identifier and the quality score of the final record
FinalRecordOf(paper, final) ==
    /\ final.paper_id = paper.paper_id
    /\ final.quality_score = ComputedScore(paper)

\* C13: after process_papers has returned, a deduplicated record is in the
\* final output if and only if the overall quality score computed for it is
\* at least the configured minimum, and every final record carries the
\* quality score computed for it, whose overall value is at least the
\* minimum.
C13_FilteredByMinimum ==
    Returned =>
        /\ \A i \in 1..Len(deduplicated_papers) :
               (deduplicated_papers[i].paper_id \in IdsOf(FinalRecords))
                   <=> FGreaterEq(deduplicated_papers[i].quality_score.overall_score,
                                  min_quality_score)
        /\ \A k \in 1..Len(FinalRecords) :
               /\ \E i \in 1..Len(deduplicated_papers) :
                      FinalRecordOf(deduplicated_papers[i], FinalRecords[k])
               /\ FGreaterEq(FinalRecords[k].quality_score.overall_score,
                             min_quality_score)

\* Under the minimum 0.5, of two deduplicated records one scored at least
\* 0.5 and is the final record, the other scored between 0.4 and 0.5.
C13_Witness ==
    /\ Returned
    /\ min_quality_score = R(5, 10)
    /\ Len(deduplicated_papers) = 2
    /\ Len(FinalRecords) = 1
    /\ \E i \in 1..2 :
           /\ deduplicated_papers[i].paper_id \notin IdsOf(FinalRecords)
           /\ FGreaterEq(deduplicated_papers[i].quality_score.overall_score, R(4, 10))
           /\ FLess(deduplicated_papers[i].quality_score.overall_score, R(5, 10))

\* the number of records of the batch that the Validator rejects
RejectedByValidation(papers) ==
    Cardinality({ i \in 1..Len(papers) :
                    ~(Truthy(papers[i].paper_id) /\ Truthy(papers[i].title)) })

\* the counts of stats decrease along the stages, the last three equal the
\* number of final records, and the differences are the counts of removals
CountsAgree(stats, final_count, rejected) ==
    /\ stats.input_papers >= stats.validated_papers
    /\ stats.validated_papers >= stats.deduplicated_papers
    /\ stats.deduplicated_papers >= stats.quality_filtered_papers
    /\ stats.quality_filtered_papers = stats.final_papers
    /\ stats.final_papers = stats.enrichment_applied
    /\ stats.enrichment_applied = final_count
    /\ stats.duplicates_removed = stats.validated_papers - stats.deduplicated_papers
    /\ stats.quality_filtered_out
           = stats.deduplicated_papers - stats.quality_filtered_papers
    /\ stats.input_papers = stats.final_papers + rejected
                                + stats.duplicates_removed + stats.quality_filtered_out

\* C14: the stats that process_papers returns satisfy input_papers >=
\* validated_papers >= deduplicated_papers >= quality_filtered_papers =
\* final_papers = enrichment_applied = number of final records,
\* duplicates_removed and quality_filtered_out are the differences of the
\* neighbouring counts, and input_papers is the sum of final_papers, the
\* records rejected by validation, duplicates_removed and
\* quality_filtered_out.
C14_CountsAgree ==
    Returned =>
        CountsAgree(result.processing_stats, Len(FinalRecords),
                    RejectedByValidation(raw_papers))

\* A batch of two records came back with one duplicate removed and the
\* other record filtered out for its score.
C14_Witness ==
    /\ Returned
    /\ result.processing_stats.input_papers = 2
    /\ result.processing_stats.duplicates_removed = 1
    /\ result.processing_stats.quality_filtered_out = 1
    /\ FinalRecords = << >>

(***************************************************************************)
(* Properties of the recency score                                         *)
(***************************************************************************)

\* the recency score of an age in whole days
RecencyOfAge(age) ==
    CASE age <= 30  -> R(10, 10)
      [] age > 30 /\ age <= 90   -> R(8, 10)
      [] age > 90 /\ age <= 180  -> R(6, 10)
      [] age > 180 /\ age <= 365 -> R(4, 10)
      [] age > 365 -> R(2, 10)

\* The texts of DateTexts that are dates in the form year-month-day, each
\* with its age in days on 2024-03-01
AgesOfDateTexts ==
    { << "2024-02-20", 10 >>, << "2023-01-26", 400 >>, << "2024-2-20", 10 >>,
      << "2024-02- 3", 27 >>, << "2024-02-29", 1 >>, << "2024-01-31", 30 >>,
      << "2024-03-06", -5 >>, << "0001-01-01", 738945 >> }

\* the age of a publication date that is not absent, or unknown = TRUE for
\* a str that is not a date
AgeOf(publication_date) ==
    IF ~IsStrDate(publication_date)
    THEN [unknown |-> FALSE, age |-> RecencyToday - publication_date.day]
    ELSE IF \E row \in AgesOfDateTexts : row[1] = publication_date.text
    THEN [unknown |-> FALSE,
          age |-> (CHOOSE row \in AgesOfDateTexts : row[1] = publication_date.text)[2]]
    ELSE [unknown |-> TRUE, age |-> 0]

\* score is the recency score of a date of the age given, and no older date
\* scores higher
RecencyScoreOf(known, score) ==
    IF known.unknown THEN score = R(5, 10)
    ELSE /\ score = RecencyOfAge(known.age)
         /\ known.age = 10 => score = R(1, 1)
         /\ known.age = 400 => score = R(2, 10)
         /\ \A older \in known.age..(MaxAge + 1) :
                FLessEq(RecencyOfAge(older), score)

\* C16: the recency score is 0.5 when the publication date is absent, and
\* otherwise 1.0, 0.8, 0.6, 0.4 or 0.2 for an age in whole days of at most
\* 30, 90, 180, 365 or more (1.0 at 10 days, 0.2 at 400), non-increasing in
\* the age; a date that cannot be parsed gives 0.5 and no error.
C16_RecencySteps ==
    Called("_score_publication_recency") =>
        IF call.arg.is_none THEN call.ret = R(5, 10)
        ELSE RecencyScoreOf(AgeOf(call.arg), call.ret)

\* The score of the str date of 400 days ago was computed as 0.2.
C16_Witness ==
    /\ Called("_score_publication_recency")
    /\ call.arg = StrDate("2023-01-26")
    /\ call.ret = R(2, 10)

(***************************************************************************)
(* Properties of the derived maps                                          *)
(***************************************************************************)

\* the topical buckets of a relevance-indicator map
Buckets(indicators) ==
    DOMAIN indicators \ {"total_relevance_score", "is_highly_relevant"}

\* the number of the four structural signals that are true
SignalsOf(analysis) ==
    Cardinality({ k \in {"has_methodology", "has_evaluation", "has_comparison",
                         "mentions_dataset"} : analysis[k] })

\* the three derived maps computed from a title and an abstract alone, for
\* the titles and abstracts of the records that can be enriched
DerivedFromText ==
    [ text \in { << paper.title, paper.abstract >> :
                   paper \in { x \in ValidatedPool : ~AnalyzeRaises(x) } } |->
        [ word_count |->
              _calculate_word_count([title |-> text[1], abstract |-> text[2]]),
          relevance_indicators |->
              _extract_relevance_indicators([title |-> text[1], abstract |-> text[2]]),
          content_analysis |->
              _analyze_content([title |-> text[1], abstract |-> text[2]]) ] ]

\* the derived maps of a final record agree with each other and are those
\* of its title and abstract
DerivedMapsConsistent(record, of_text) ==
    /\ record.relevance_indicators.total_relevance_score
           = SumOver(record.relevance_indicators, Buckets(record.relevance_indicators))
    /\ record.relevance_indicators.is_highly_relevant
           <=> record.relevance_indicators.total_relevance_score >= 3
    /\ record.content_analysis.technical_depth_score
           = R(SignalsOf(record.content_analysis), 4)
    /\ record.word_count.total_words
           = record.word_count.title_words + record.word_count.abstract_words
    /\ record.word_count = of_text.word_count
    /\ record.relevance_indicators = of_text.relevance_indicators
    /\ record.content_analysis = of_text.content_analysis

\* C17: in every final record total_relevance_score is the sum of the
\* keyword hits of the buckets, is_highly_relevant is true exactly when that
\* total is at least 3, technical_depth_score is a quarter of the number of
\* true values among has_methodology, has_evaluation, has_comparison and
\* mentions_dataset, total_words is title_words plus abstract_words, and the
\* maps are those of the record's own title and abstract whatever the other
\* records of the batch.
C17_DerivedMapsConsistent ==
    Returned =>
        \A k \in 1..Len(FinalRecords) :
            DerivedMapsConsistent(FinalRecords[k],
                DerivedFromText[<< FinalRecords[k].title, FinalRecords[k].abstract >>])

\* Two final records came back, one highly relevant with three of the four
\* signals, the other not highly relevant.
C17_Witness ==
    /\ Returned
    /\ Len(FinalRecords) = 2
    /\ FinalRecords[1].relevance_indicators.is_highly_relevant
    /\ FinalRecords[1].relevance_indicators.total_relevance_score = 4
    /\ FinalRecords[1].content_analysis.technical_depth_score = R(3, 4)
    /\ ~FinalRecords[2].relevance_indicators.is_highly_relevant
    /\ FinalRecords[2].word_count.abstract_words > 0


(***************************************************************************)
(* C18  the background job of POST /discover                               *)
(***************************************************************************)

\* the fetch calls a job makes for its queries, in order
ExpectedFetches(queries, max_results_per_query) ==
    [ i \in 1..Len(queries) |-> << "fetch_papers", queries[i], max_results_per_query >> ]

\* the fetched papers whose identifier is not stored
NotStored(papers, stored) ==
    SelectSeq(papers, LAMBDA paper : paper.paper_id \notin stored)

\* the ingest calls a job makes for the papers it fetched
ExpectedIngest(new_papers) ==
    IF Len(new_papers) = 0 THEN << >> ELSE << << "ingest_papers", new_papers >> >>

\* the calls and the end of the finished job are those of the statement
JobAsStated(task, status, stored) ==
    /\ task.answer.status = "in_progress"
    /\ task.answer.papers_discovered = 0
    /\ task.calls =
           << << "check_existing_papers", << >> >> >>
               \o ExpectedFetches(task.queries, task.max_results_per_query)
               \o ExpectedIngest(NotStored(task.papers, stored))
    /\ status = "completed"

\* C18: a POST /discover with a non-empty query list answers in_progress
\* with papers_discovered 0, and its finished background job has looked up
\* the stored identifiers once, fetched once per query with (query,
\* max_results_per_query), ingested in one call exactly the fetched papers
\* that are not stored, and has the status completed.
C18_JobIngestsNewPapers ==
    \A job_id \in DOMAIN background_tasks :
        background_tasks[job_id].pc = "done"
            => JobAsStated(background_tasks[job_id], job_status[job_id], bigquery_papers)


(***************************************************************************)
(* C19  the lifecycle of a job status                                      *)
(***************************************************************************)

Terminal == { "completed", "failed" }

\* job_id is not reported as not_found
Created(job_id) == job_id \in DOMAIN job_status

\* job_id has a terminal status
Ended(job_id) == Created(job_id) /\ job_status[job_id] \in Terminal

\* the step leaves job_id absent, creates it as in_progress by a POST with
\* at least one query, keeps its status, or moves it from in_progress to a
\* terminal status
LifecycleStep(job_id) ==
    IF ~Created(job_id)
    THEN \/ job_id \notin DOMAIN job_status'
         \/ /\ job_status'[job_id] = "in_progress"
            /\ response'.endpoint = "/discover"
            /\ response'.status_code = 200
            /\ response'.body.job_id = job_id
            /\ Len(background_tasks'[job_id].queries) > 0
    ELSE /\ job_id \in DOMAIN job_status'
         /\ \/ job_status'[job_id] = job_status[job_id]
            \/ job_status[job_id] = "in_progress" /\ job_status'[job_id] \in Terminal

\* a rejected POST creates no job and changes no status
RejectedStep ==
    (response' /= response /\ response'.endpoint = "/discover" /\ response'.status_code = 400)
        => UNCHANGED << job_status, background_tasks >>

\* a status query reports not_found for an absent job and the status of a
\* created one, and changes no status
StatusStep ==
    (response' /= response /\ response'.endpoint = "/status")
        => /\ UNCHANGED << job_status, background_tasks >>
           /\ response'.status =
                  (IF Created(response'.job_id) THEN job_status[response'.job_id]
                   ELSE "not_found")

\* C19: a job identifier is absent, and reported as not_found, until a POST
\* /discover with at least one query creates it as in_progress; a POST with
\* an empty query list is rejected and creates no job; a status changes only
\* from in_progress to completed or failed, so at most once, and a terminal
\* status never changes; every created job eventually has a terminal
\* status, whatever the interleaving of jobs and status queries.
C19_JobLifecycle ==
    /\ [][/\ \A job_id \in JobIds \cup {UnknownJob} : LifecycleStep(job_id)
          /\ RejectedStep
          /\ StatusStep]_vars
    /\ \A job_id \in JobIds : Created(job_id) ~> Ended(job_id)

\* one job has ended while another is still fetching, and a status query
\* has just reported the ended one
C19_Witness ==
    /\ response.endpoint = "/status"
    /\ \E job_id \in JobIds, other \in JobIds :
           /\ Ended(job_id)
           /\ response.job_id = job_id
           /\ response.status = job_status[job_id]
           /\ Created(other)
           /\ job_status[other] = "in_progress"
           /\ background_tasks[other].pc = "fetch"


(***************************************************************************)
(* C20  process_papers leaves its arguments as they were                   *)
(***************************************************************************)

RelevantInSomeCase(code) ==
    \E relevant \in RELEVANT_CATEGORIES : Lower(code) = Lower(relevant)

\* C21: a record whose only category is a code of the configured relevant
\* set, in any letter case, gets the category score 1.0 once the Normalizer
\* has canonicalized the code.
C21_RelevantAfterNormalization ==
    (/\ Called("_score_category_relevance")
     /\ "raw" \in DOMAIN call
     /\ Len(call.raw) = 1
     /\ RelevantInSomeCase(call.raw[1]))
        => call.ret = R(1, 1)

(***************************************************************************)
(* C22  the category score of a list with a relevant category              *)
(***************************************************************************)

\* C22: a non-empty category list that holds at least one relevant category
\* has a category score of at least 0.2, the score of a list with none.
C22_RelevanceNotPenalised ==
    (/\ Called("_score_category_relevance")
     /\ Len(call.arg) > 0
     /\ \E i \in 1..Len(call.arg) : call.arg[i] \in RELEVANT_CATEGORIES)
        => FGreaterEq(call.ret, R(2, 10))


(***************************************************************************)
(* C23  a record that displaces a duplicate is in the final output         *)
(***************************************************************************)

\* validated_papers[i] is a record the Deduplicator kept
KeptByDeduplicator(i) ==
    \E k \in 1..Len(deduplicated_papers) :
        Unscored(deduplicated_papers[k]) = validated_papers[i]

\* validated_papers[j] has the identifier, the ContentFingerprint or, with a
\* title of at least 10 characters, a near-duplicate of the title of
\* validated_papers[i]
DuplicateOf(j, i) ==
    \/ validated_papers[j].paper_id = validated_papers[i].paper_id
    \/ ContentFingerprint(validated_papers[j]) = ContentFingerprint(validated_papers[i])
    \/ /\ Len(validated_papers[j].title) >= 10
       /\ ~JaccardAtMostFourFifths(validated_papers[j], validated_papers[i])

\* C23: whenever process_papers drops a record because an earlier record of
\* the batch, kept by the Deduplicator, has the same identifier, the same
\* ContentFingerprint or a near-duplicate title, that earlier record is in
\* the final output.
C23_DuplicateClusterSurvives ==
    Returned =>
        \A i, j \in 1..Len(validated_papers) :
            (i < j /\ KeptByDeduplicator(i) /\ DuplicateOf(j, i))
                => validated_papers[i].paper_id \in IdsOf(FinalRecords)


(***************************************************************************)
(* C24  the Deduplicator applied to its own output                         *)
(***************************************************************************)

\* C24: the Deduplicator applied to its own output, with the same known
\* set, returns that output: the same records in the same order.
C24_DeduplicatorIdempotent ==
    (Called("_deduplicate_papers") /\ "first" \in DOMAIN call)
        => /\ ~call.ret.raised
           /\ call.ret.deduplicated = call.arg.papers
           /\ call.arg.existing_ids = call.first.existing_ids

\* Of three validated records under a known set that is not empty, the first
\* pass dropped one and kept two, and the second pass returned the two.
C24_Witness ==
    /\ Called("_deduplicate_papers")
    /\ "first" \in DOMAIN call
    /\ call.first.existing_ids /= {}
    /\ Len(call.first.papers) = 3
    /\ Len(call.arg.papers) = 2
    /\ Len(call.arg.papers[1].title) >= 10
    /\ Len(call.arg.papers[2].title) >= 10
    /\ call.ret.deduplicated = call.arg.papers

=============================================================================
